---- MODULE Spec2Model ----
(***************************************************************************)
(* Bhakti Tradition Map, src/server.js: the filter-query construction of   *)
(* GET /api/traditions, the record-to-marker projection                    *)
(* (convertToMapMarkers), the legacy GET /api/places route, the parsers of *)
(* compound language and tradition values with GET /api/filter-options,    *)
(* and the ingestion of a contribution (POST /api/contribute) with the     *)
(* geocoding of its places; and src/frontend/index.js: the requests of the *)
(* page (initial load, filters, contribution), its loading overlay and the *)
(* place suggestions of the contribution form.                             *)
(*                                                                         *)
(* Strings are sequences of one-character strings.  A character outside    *)
(* printable ASCII is written by its code point, "U+012B".  The string     *)
(* literals of src/server.js are modelled as the file holds them: the      *)
(* file's non-ASCII literals are stored mis-encoded (the UTF-8 bytes of    *)
(* each letter read as Mac Roman), e.g. line 545 holds the eleven          *)
(* characters V U+0192 U+00B4 r a U+2248 U+00F5 a i v a where the letters  *)
(* V U+012B r a U+015B a i v a were meant.                                 *)
(***************************************************************************)
EXTENDS Integers, Sequences, FiniteSets, TLC

VARIABLES collection, req, filter, docsFound, error, resStatus, resBody,
          call, ret, lookups,
          searchInput, searchTimeout, currentFilters, allTraditions,
          filteredTraditions, clusterGroup, overlayHidden, fetches,
          placeInput, suggestionTimeouts, suggestionsList

\* the state of a request to the server
apiVars == <<collection, req, filter, docsFound, error, resStatus, resBody>>

\* a call of one of the value parsers and what it returned
fnVars == <<call, ret>>

\* the lookups the request in hand made at the geocoding service, in order
geoVars == <<lookups>>

\* the page: the value of #search-input and its debounce timer, the data
\* and filtering state, the layers of the cluster group, the class hidden
\* of #loading-overlay, and the requests the page made, in order
pageVars == <<searchInput, searchTimeout, currentFilters, allTraditions,
              filteredTraditions, clusterGroup, overlayHidden, fetches>>

\* the place input of the contribution form: its value, its debounce timer
\* and its suggestions list
suggestVars == <<placeInput, suggestionTimeouts, suggestionsList>>

\* the variables of the server
serverVars == <<collection, req, filter, docsFound, error, resStatus, resBody,
                call, ret, lookups>>

vars == <<collection, req, filter, docsFound, error, resStatus, resBody,
          call, ret, lookups,
          searchInput, searchTimeout, currentFilters, allTraditions,
          filteredTraditions, clusterGroup, overlayHidden, fetches,
          placeInput, suggestionTimeouts, suggestionsList>>

\* no timer is pending
NoTimeout == [pending |-> FALSE]

\* the page before it is loaded
PageIdle ==
  /\ searchInput = <<>>
  /\ searchTimeout = NoTimeout
  /\ currentFilters = <<>>
  /\ allTraditions = <<>>
  /\ filteredTraditions = <<>>
  /\ clusterGroup = <<>>
  /\ overlayHidden = TRUE
  /\ fetches = <<>>
  /\ placeInput = <<>>
  /\ suggestionTimeouts = NoTimeout
  /\ suggestionsList = [items |-> <<>>, show |-> FALSE]

(***************************************************************************)
(* Bounds of the model.                                                    *)
(***************************************************************************)
\* longest free-text criteria value drawn over TextAlphabet
MaxTextLen == 1
\* most documents in the collection when the request arrives
MaxSeedDocs == 1
\* how many distinct values Math.random().toString(36).slice(2, 9) can take
NumSuffix == 2

(***************************************************************************)
(* JavaScript values.                                                      *)
(***************************************************************************)
\* undefined / null / a missing document field
Undefined == <<"undefined">>

\* {} : the object without keys
EmptyObj == [k \in {} |-> k]

\* no parser is called / the call has not returned
NoCall == [fn |-> "none"]
NotReturned == [done |-> FALSE]

\* if (v): undefined and "" are falsy, every other string is truthy
Truthy(v) == v # Undefined /\ v # <<>>

\* String.prototype.toLowerCase, one character
ToLowerChar(c) ==
  CASE c = "A" -> "a" [] c = "B" -> "b" [] c = "C" -> "c" [] c = "D" -> "d"
    [] c = "E" -> "e" [] c = "F" -> "f" [] c = "G" -> "g" [] c = "H" -> "h"
    [] c = "I" -> "i" [] c = "J" -> "j" [] c = "K" -> "k" [] c = "L" -> "l"
    [] c = "M" -> "m" [] c = "N" -> "n" [] c = "O" -> "o" [] c = "P" -> "p"
    [] c = "Q" -> "q" [] c = "R" -> "r" [] c = "S" -> "s" [] c = "T" -> "t"
    [] c = "U" -> "u" [] c = "V" -> "v" [] c = "W" -> "w" [] c = "X" -> "x"
    [] c = "Y" -> "y" [] c = "Z" -> "z"
    [] c = "U+00C4" -> "U+00E4" [] c = "U+00C5" -> "U+00E5"
    [] c = "U+00D6" -> "U+00F6" [] c = "U+0100" -> "U+0101"
    [] c = "U+012A" -> "U+012B" [] c = "U+015A" -> "U+015B"
    [] c = "U+1E44" -> "U+1E45"
    [] OTHER -> c

\* String.prototype.toLowerCase
ToLowerCase(s) == [i \in 1..Len(s) |-> ToLowerChar(s[i])]

IsWhiteSpace(c) == c \in {" ", "\t", "\n"}

RECURSIVE TrimStart(_)
TrimStart(s) ==
  IF s # <<>> /\ IsWhiteSpace(Head(s)) THEN TrimStart(Tail(s)) ELSE s

RECURSIVE TrimEnd(_)
TrimEnd(s) ==
  IF s # <<>> /\ IsWhiteSpace(s[Len(s)])
  THEN TrimEnd(SubSeq(s, 1, Len(s) - 1)) ELSE s

\* String.prototype.trim
Trim(s) == TrimEnd(TrimStart(s))

Digits == {"0", "1", "2", "3", "4", "5", "6", "7", "8", "9"}

DigitVal(c) ==
  CASE c = "0" -> 0 [] c = "1" -> 1 [] c = "2" -> 2 [] c = "3" -> 3
    [] c = "4" -> 4 [] c = "5" -> 5 [] c = "6" -> 6 [] c = "7" -> 7
    [] c = "8" -> 8 [] c = "9" -> 9

\* the longest prefix of s made of decimal digits
RECURSIVE DigitPrefix(_)
DigitPrefix(s) ==
  IF s # <<>> /\ Head(s) \in Digits
  THEN <<Head(s)>> \o DigitPrefix(Tail(s)) ELSE <<>>

RECURSIVE DigitsValue(_)
DigitsValue(ds) ==
  IF ds = <<>> THEN 0
  ELSE 10 * DigitsValue(SubSeq(ds, 1, Len(ds) - 1)) + DigitVal(ds[Len(ds)])

\* parseInt(s, 10): leading white space is skipped, an optional sign is read,
\* then the longest run of digits; what follows the digits is ignored, and
\* the result is NaN when there is no digit
ParseInt(s) ==
  LET t == TrimStart(s)
      signed == t # <<>> /\ Head(t) \in {"-", "+"}
      body == IF signed THEN Tail(t) ELSE t
      ds == DigitPrefix(body)
      sign == IF signed /\ Head(t) = "-" THEN -1 ELSE 1
  IN IF ds = <<>> THEN [nan |-> TRUE, val |-> 0]
     ELSE [nan |-> FALSE, val |-> sign * DigitsValue(ds)]

(***************************************************************************)
(* new RegExp(pattern, 'i') and its match.  The fragment modelled: a       *)
(* character, an escaped character (backslash and the character), the dot, *)
(* the alternation bar and the group parentheses.  Criteria values are     *)
(* drawn over TextAlphabet, which holds "(" and no ")", and the literals   *)
(* of the code hold no special character, so a group is never closed and   *)
(* no quantifier, class or anchor reaches the constructor unescaped.       *)
(***************************************************************************)
RegexSpecials ==
  {".", "*", "+", "?", "^", "$", "{", "}", "(", ")", "|", "[", "]", "\\"}

RECURSIVE RegExpAtoms(_)
RegExpAtoms(p) ==
  IF p = <<>> THEN <<>>
  ELSE IF Head(p) = "\\"
       THEN IF Len(p) = 1 THEN <<[kind |-> "bad", ch |-> ""]>>
            ELSE <<[kind |-> "lit", ch |-> p[2]]>>
                 \o RegExpAtoms(SubSeq(p, 3, Len(p)))
       ELSE <<[kind |-> CASE Head(p) = "." -> "any"
                          [] Head(p) = "|" -> "bar"
                          [] Head(p) = "(" -> "open"
                          [] Head(p) = ")" -> "close"
                          [] OTHER -> "lit",
               ch |-> Head(p)]>>
            \o RegExpAtoms(Tail(p))

\* the depth of open groups after the atoms; -1 once a ")" closes nothing
RECURSIVE GroupDepth(_, _)
GroupDepth(atoms, depth) ==
  IF depth < 0 \/ atoms = <<>> THEN depth
  ELSE GroupDepth(Tail(atoms),
                  CASE Head(atoms).kind = "open" -> depth + 1
                    [] Head(atoms).kind = "close" -> depth - 1
                    [] OTHER -> depth)

\* the alternatives: the atoms between the bars
RECURSIVE SplitBars(_, _)
SplitBars(atoms, cur) ==
  IF atoms = <<>> THEN <<cur>>
  ELSE IF Head(atoms).kind = "bar"
       THEN <<cur>> \o SplitBars(Tail(atoms), <<>>)
       ELSE SplitBars(Tail(atoms), Append(cur, Head(atoms)))

\* new RegExp(pattern, flags): throws SyntaxError for an unterminated group,
\* an unmatched ")" and a pattern ending in a backslash
RegExp(pattern, flags) ==
  LET atoms == RegExpAtoms(pattern)
      bad == (\E i \in 1..Len(atoms) : atoms[i].kind = "bad")
             \/ GroupDepth(atoms, 0) # 0
  IN [syntaxError |-> bad,
      source |-> pattern,
      ignoreCase |-> "i" \in flags,
      alts |-> IF bad THEN <<>> ELSE SplitBars(atoms, <<>>)]

AtomMatches(re, atom, c) ==
  \/ atom.kind = "any" /\ c # "\n"
  \/ atom.kind = "lit"
     /\ IF re.ignoreCase THEN ToLowerChar(atom.ch) = ToLowerChar(c)
        ELSE atom.ch = c

\* re.test(s): some alternative matches at some offset of s
RegExpTest(re, s) ==
  \E a \in 1..Len(re.alts) :
    \E o \in 0..(Len(s) - Len(re.alts[a])) :
      \A j \in 1..Len(re.alts[a]) : AtomMatches(re, re.alts[a][j], s[o + j])

\* mutant of EscapeRegExp: the variation is put in the pattern as it is
EscapeRegExpNone(v) == v

\* v.replace(/[.*+?^${}()|[\]\\]/g, '\\$&')
RECURSIVE EscapeRegExp(_)
EscapeRegExp(v) ==
  IF v = <<>> THEN <<>>
  ELSE (IF Head(v) \in RegexSpecials THEN <<"\\", Head(v)>> ELSE <<Head(v)>>)
       \o EscapeRegExp(Tail(v))

\* escaped.join('|')
RECURSIVE JoinBar(_)
JoinBar(ss) ==
  IF ss = <<>> THEN <<>>
  ELSE IF Len(ss) = 1 THEN ss[1]
  ELSE ss[1] \o <<"|">> \o JoinBar(Tail(ss))

(***************************************************************************)
(* GET /api/traditions: the filter.                                        *)
(***************************************************************************)
QueryKeys ==
  {"tradition", "traditionType", "gender", "period", "language", "saint",
   "placeType", "search", "startYearMin", "startYearMax"}

\* the variations pushed for a recognized tradition name, as the file holds
\* them
TraditionVariations(tradSearch) ==
  LET lowerTrad == ToLowerCase(tradSearch)
  IN <<tradSearch>> \o
     (IF lowerTrad \in {<<"s", "h", "a", "i", "v", "a">>,
                        <<"s", "a", "i", "v", "a">>}
      THEN << <<"U+2248", "U+00F6", "a", "i", "v", "a">>,
              <<"S", "a", "i", "v", "a">>,
              <<"S", "h", "a", "i", "v", "a">>,
              <<"S", "h", "a", "i", "v", "i", "s", "m">> >>
      ELSE IF lowerTrad \in {<<"v", "a", "i", "s", "h", "n", "a", "v", "a">>,
                             <<"v", "a", "i", "s", "n", "a", "v", "a">>}
      THEN << <<"V", "a", "i", "U+00B7", "U+03C0", "U+00A3", "U+00B7",
                "U+03C0", "U+00E1", "a", "v", "a">>,
              <<"V", "a", "i", "s", "n", "a", "v", "a">>,
              <<"V", "a", "i", "s", "h", "n", "a", "v", "a">>,
              <<"V", "a", "i", "s", "h", "n", "a", "v", "i", "s", "m">> >>
      ELSE IF lowerTrad = <<"l", "i", "n", "g", "a", "y", "a", "t">>
      THEN << <<"L", "i", "U+00B7", "U+03C0", "U+00D6", "g", "U+0192",
                "U+00C5", "y", "a", "t">>,
              <<"L", "i", "n", "g", "U+0192", "U+00C5", "y", "a", "t">>,
              <<"V", "i", "r", "a", "s", "h", "a", "i", "v", "a">>,
              <<"V", "U+0192", "U+00B4", "r", "a", "U+2248", "U+00F5", "a",
                "i", "v", "a">> >>
      ELSE IF lowerTrad = <<"v", "a", "r", "k", "a", "r", "i">>
      THEN << <<"V", "U+0192", "U+00C5", "r", "k", "a", "r", "i">>,
              <<"V", "a", "r", "k", "a", "r", "i", " ", "S", "a", "m", "p",
                "r", "a", "d", "a", "y", "a">> >>
      ELSE IF lowerTrad = <<"g", "a", "u", "d", "i", "y", "a">>
      THEN << <<"G", "a", "u", "U+00B7", "U+220F", "U+00E7", "U+0192",
                "U+00B4", "y", "a">>,
              <<"G", "a", "u", "d", "U+0192", "U+00B4", "y", "a">> >>
      ELSE IF lowerTrad = <<"a", "l", "v", "a", "r", "s">>
      THEN << <<"U+0192", "U+00C4", "U+00B7", "U+220F", "U+00AA", "v",
                "U+0192", "U+00C5", "r", "s">>,
              <<"A", "l", "w", "a", "r", "s">> >>
      ELSE IF lowerTrad = <<"n", "a", "y", "a", "n", "a", "r", "s">>
      THEN << <<"N", "U+0192", "U+00C5", "y", "a", "n", "U+0192", "U+00C5",
                "r", "s">>,
              <<"N", "a", "y", "a", "n", "m", "a", "r", "s">> >>
      ELSE <<>>)

\* the variations pushed for a recognized language name
LanguageVariations(langSearch) ==
  LET lowerLang == ToLowerCase(langSearch)
  IN <<langSearch>> \o
     (IF lowerLang = <<"b", "r", "a", "j", " ", "b", "h", "a", "s", "h", "a">>
      THEN << <<"B", "r", "a", "j", " ", "B", "h", "a", "s", "a">>,
              <<"B", "r", "a", "j", "B", "h", "a", "s", "h", "a">>,
              <<"B", "r", "a", "j", "B", "h", "a", "s", "a">>,
              <<"B", "r", "i", "j", " ", "B", "h", "a", "s", "h", "a">>,
              <<"B", "r", "a", "j">> >>
      ELSE IF lowerLang = <<"h", "i", "n", "d", "i">>
      THEN << <<"H", "i", "n", "d", "i", "i">>,
              <<"H", "i", "n", "d", "u", "s", "t", "a", "n", "i">> >>
      ELSE IF lowerLang = <<"s", "a", "n", "s", "k", "r", "i", "t">>
      THEN << <<"S", "a", "n", "s", "k", "i", "r", "t">>,
              <<"S", "a", "n", "k", "r", "i", "t">>,
              <<"S", "a", "n", "s", "k", "r", "i", "t", "-", "d", "e", "r",
                "i", "v", "e", "d">> >>
      ELSE IF lowerLang = <<"b", "e", "n", "g", "a", "l", "i">>
      THEN << <<"B", "a", "n", "g", "l", "a">> >>
      ELSE IF lowerLang = <<"p", "u", "n", "j", "a", "b", "i">>
      THEN << <<"P", "a", "n", "j", "a", "b", "i">> >>
      ELSE IF lowerLang = <<"t", "a", "m", "i", "l">>
      THEN << <<"T", "a", "m", "i", "z", "h">> >>
      ELSE IF lowerLang = <<"o", "d", "i", "a">>
      THEN << <<"O", "d", "i", "y", "a">>, <<"O", "r", "i", "y", "a">> >>
      ELSE <<>>)

\* variations.map(v => v.replace(...)): every variation escaped
EscapeAll(variations) ==
  [i \in 1..Len(variations) |-> EscapeRegExp(variations[i])]

\* mutant of TextPart: an empty value counts as given
TextPartWhenEmpty(query, key) ==
  IF query[key] # Undefined THEN key :> RegExp(query[key], {"i"}) ELSE EmptyObj

\* if (period) filter.period = new RegExp(String(period), 'i'), and saint
TextPart(query, key) ==
  IF Truthy(query[key]) THEN key :> RegExp(query[key], {"i"}) ELSE EmptyObj

\* if (tradition) { ... filter.tradition = new RegExp(escaped.join('|'), 'i') }
TraditionPart(query) ==
  IF Truthy(query.tradition)
  THEN "tradition" :>
         RegExp(JoinBar(EscapeAll(TraditionVariations(Trim(query.tradition)))),
                {"i"})
  ELSE EmptyObj

\* if (language) { ... filter.language = new RegExp(escaped.join('|'), 'i') }
LanguagePart(query) ==
  IF Truthy(query.language)
  THEN "language" :>
         RegExp(JoinBar(EscapeAll(LanguageVariations(Trim(query.language)))),
                {"i"})
  ELSE EmptyObj

\* if (traditionType) filter.traditionType = String(traditionType), and gender
ExactPart(query, key) ==
  IF Truthy(query[key]) THEN key :> query[key] ELSE EmptyObj

\* if (search) filter.$or = [{saint: ...}, {tradition: ...}, {philosophy: ...}]
SearchPart(query) ==
  IF Truthy(query.search)
  THEN "$or" :> << [field |-> "saint", re |-> RegExp(query.search, {"i"})],
                   [field |-> "tradition", re |-> RegExp(query.search, {"i"})],
                   [field |-> "philosophy", re |-> RegExp(query.search, {"i"})] >>
  ELSE EmptyObj

\* mutant of MinCondition: the fallback of the maximum bound, '9999', is used
MinConditionSentinelFallback(query) ==
  IF Truthy(query.startYearMin) /\ ~ParseInt(query.startYearMin).nan
  THEN << [op |-> "$gte", ifNull |-> <<"9", "9", "9", "9">>,
           bound |-> ParseInt(query.startYearMin).val] >>
  ELSE <<>>

\* the $expr a minimum bound pushes: $gte of $toInt($ifNull($startYear, '0'))
MinCondition(query) ==
  IF Truthy(query.startYearMin) /\ ~ParseInt(query.startYearMin).nan
  THEN << [op |-> "$gte", ifNull |-> <<"0">>,
           bound |-> ParseInt(query.startYearMin).val] >>
  ELSE <<>>

\* mutant of MaxCondition: the fallback of the minimum bound, '0', is used
MaxConditionZeroFallback(query) ==
  IF Truthy(query.startYearMax) /\ ~ParseInt(query.startYearMax).nan
  THEN << [op |-> "$lte", ifNull |-> <<"0">>,
           bound |-> ParseInt(query.startYearMax).val] >>
  ELSE <<>>

\* the $expr a maximum bound pushes: $lte of $toInt($ifNull($startYear, '9999'))
MaxCondition(query) ==
  IF Truthy(query.startYearMax) /\ ~ParseInt(query.startYearMax).nan
  THEN << [op |-> "$lte", ifNull |-> <<"9", "9", "9", "9">>,
           bound |-> ParseInt(query.startYearMax).val] >>
  ELSE <<>>

\* if (startYearMin || startYearMax) { ... filter.$and = yearConditions }
YearPart(query) ==
  LET yearConditions == MinCondition(query) \o MaxCondition(query)
  IN IF (Truthy(query.startYearMin) \/ Truthy(query.startYearMax))
        /\ Len(yearConditions) > 0
     THEN "$and" :> yearConditions
     ELSE EmptyObj

\* the filter object of the handler, when every RegExp is constructed
FilterObject(query) ==
  TextPart(query, "period") @@ TextPart(query, "saint")
  @@ TraditionPart(query) @@ LanguagePart(query)
  @@ ExactPart(query, "traditionType") @@ ExactPart(query, "gender")
  @@ SearchPart(query) @@ YearPart(query)

\* the filter construction: a RegExp constructor that throws ends the
\* handler, and asyncHandler hands the SyntaxError to the error middleware
BuildFilter(query) ==
  LET f == FilterObject(query)
      threw ==
        \/ \E k \in DOMAIN f \cap {"period", "saint", "tradition", "language"} :
             f[k].syntaxError
        \/ "$or" \in DOMAIN f /\ f["$or"][1].re.syntaxError
  IN [threw |-> threw, filter |-> IF threw THEN EmptyObj ELSE f]

(***************************************************************************)
(* The document store's evaluation of the filter.                          *)
(***************************************************************************)
\* {field: /re/i}: the field is a string and the expression matches in it
RegexMatches(re, value) == value # Undefined /\ RegExpTest(re, value)

\* $toInt of a string: an optional sign and decimal digits, nothing else;
\* any other string is a conversion failure, which fails the query
MongoToInt(s) ==
  LET signed == s # <<>> /\ Head(s) \in {"-", "+"}
      body == IF signed THEN Tail(s) ELSE s
      ok == body # <<>> /\ DigitPrefix(body) = body
  IN [err |-> ~ok,
      val |-> IF ok THEN (IF signed /\ Head(s) = "-" THEN -1 ELSE 1)
                         * DigitsValue(body)
              ELSE 0]

\* {$toInt: {$ifNull: ['$startYear', <fallback>]}}
StartYearInt(cond, doc) ==
  MongoToInt(IF doc.startYear = Undefined THEN cond.ifNull ELSE doc.startYear)

\* one $expr of filter.$and
ExprHolds(cond, doc) ==
  /\ ~StartYearInt(cond, doc).err
  /\ IF cond.op = "$gte" THEN StartYearInt(cond, doc).val >= cond.bound
     ELSE StartYearInt(cond, doc).val <= cond.bound

\* the predicates of the filter other than the year range
FieldsMatch(f, doc) ==
  /\ \A k \in DOMAIN f \cap {"period", "saint", "tradition", "language"} :
       RegexMatches(f[k], doc[k])
  /\ \A k \in DOMAIN f \cap {"traditionType", "gender"} : doc[k] = f[k]
  /\ "$or" \in DOMAIN f =>
       \E i \in 1..Len(f["$or"]) :
         RegexMatches(f["$or"][i].re, doc[f["$or"][i].field])

\* a document matches when every predicate of the filter holds of it
MatchesFilter(f, doc) ==
  /\ FieldsMatch(f, doc)
  /\ "$and" \in DOMAIN f =>
       \A i \in 1..Len(f["$and"]) : ExprHolds(f["$and"][i], doc)

\* the query fails when $toInt cannot convert a document's startYear
FindThrows(f, coll) ==
  /\ "$and" \in DOMAIN f
  /\ \E doc \in coll :
       /\ FieldsMatch(f, doc)
       /\ \E i \in 1..Len(f["$and"]) : StartYearInt(f["$and"][i], doc).err

\* sort({_id: -1})
RECURSIVE SortByIdDesc(_)
SortByIdDesc(docs) ==
  IF docs = {} THEN <<>>
  ELSE LET top == CHOOSE d \in docs : \A e \in docs : e._id <= d._id
       IN <<top>> \o SortByIdDesc(docs \ {top})

\* limit(1000)
FindLimit == 1000

\* find(filter).sort({_id: -1}).limit(1000).toArray()
Find(coll, f) ==
  LET sorted == SortByIdDesc({doc \in coll : MatchesFilter(f, doc)})
  IN SubSeq(sorted, 1, IF Len(sorted) < FindLimit THEN Len(sorted) ELSE FindLimit)

(***************************************************************************)
(* convertToMapMarkers.  A places object is the sequence of its entries    *)
(* (Object.entries order); an entry's data is null, one place or an array  *)
(* of places; a place's coords are null or an array.                       *)
(***************************************************************************)
JsNull == [kind |-> "null"]

JsArray(items) == [kind |-> "array", items |-> items]

Place(name, coords) == [kind |-> "object", name |-> name, coords |-> coords]

\* the places createMarker is called with for one entry
EntryPlaces(data) ==
  IF data.kind = "null" THEN <<>>
  ELSE IF data.kind = "array" THEN data.items
  ELSE <<data>>

\* mutant of HasMarker: the length of coords is not looked at
HasMarkerAnyLength(place) ==
  /\ place.kind # "null"
  /\ place.coords.kind # "null"

\* if (!place?.coords || place.coords.length !== 2) return;
HasMarker(place) ==
  /\ place.kind # "null"
  /\ place.coords.kind # "null"
  /\ Len(place.coords.items) = 2

\* the (place, type) pairs createMarker pushes a marker for, in order
RECURSIVE EntriesSlots(_)
EntriesSlots(entries) ==
  IF entries = <<>> THEN <<>>
  ELSE LET e == Head(entries)
           kept == SelectSeq(EntryPlaces(e.data), HasMarker)
       IN [i \in 1..Len(kept) |-> [place |-> kept[i], type |-> e.type]]
          \o EntriesSlots(Tail(entries))

\* if (!doc?.places || typeof doc.places !== 'object') return markers;
MarkerSlots(doc) ==
  IF doc.places.kind # "object" THEN <<>> ELSE EntriesSlots(doc.places.entries)

\* `${doc._id}_${type}_${Math.random().toString(36).slice(2, 9)}`
MarkerId(doc, type, suffix) == [doc |-> doc._id, type |-> type, rnd |-> suffix]

\* the marker createMarker pushes; fullData, texts, presidingDeity, endYear,
\* popup and updatedAt copy fields the documents of the model do not carry
Marker(doc, slot, suffix) ==
  [id |-> MarkerId(doc, slot.type, suffix),
   name |-> slot.place.name,
   coords |-> slot.place.coords.items,
   type |-> slot.type,
   saint |-> doc.saint,
   tradition |-> doc.tradition,
   traditionType |-> doc.traditionType,
   gender |-> doc.gender,
   period |-> doc.period,
   startYear |-> doc.startYear,
   language |-> doc.language,
   philosophy |-> doc.philosophy]

\* convertToMapMarkers(doc), Math.random drawing the suffixes in order
ConvertToMapMarkers(doc, suffixes) ==
  LET slots == MarkerSlots(doc)
  IN [i \in 1..Len(slots) |-> Marker(doc, slots[i], suffixes[i])]

\* how many markers docs.flatMap(convertToMapMarkers) holds
RECURSIVE CountMarkers(_)
CountMarkers(docs) ==
  IF docs = <<>> THEN 0
  ELSE Len(MarkerSlots(Head(docs))) + CountMarkers(Tail(docs))

\* docs.flatMap(convertToMapMarkers)
RECURSIVE FlatMapMarkers(_, _)
FlatMapMarkers(docs, suffixes) ==
  IF docs = <<>> THEN <<>>
  ELSE LET n == Len(MarkerSlots(Head(docs)))
       IN ConvertToMapMarkers(Head(docs), SubSeq(suffixes, 1, n))
          \o FlatMapMarkers(Tail(docs), SubSeq(suffixes, n + 1, Len(suffixes)))

\* the values Math.random().toString(36).slice(2, 9) is drawn from
Suffixes == 1..NumSuffix

\* markers.filter(marker => marker.type === placeType)
FilterPlaceType(markers, placeType) ==
  IF Truthy(placeType) /\ placeType # <<"a", "l", "l">>
  THEN SelectSeq(markers, LAMBDA m : m.type = placeType)
  ELSE markers

\* the projection of GET /api/places
LegacyPlace(marker) ==
  [id |-> marker.id, name |-> marker.name, coords |-> marker.coords,
   type |-> marker.type, saint |-> marker.saint,
   tradition |-> marker.tradition]

(***************************************************************************)
(* The route handlers.  A request is handled once: req is the request that *)
(* arrived, resStatus is 0 until the response is sent.                     *)
(***************************************************************************)
\* app.get('/api/traditions', ...): the filter is built, the documents are
\* found and projected to markers; an error thrown on the way reaches the
\* error middleware, which answers 500
GetTraditions ==
  /\ req.route = "/api/traditions"
  /\ resStatus = 0
  /\ LET built == BuildFilter(req.query)
     IN IF built.threw
        THEN /\ error' = "SyntaxError"
             /\ resStatus' = 500
             /\ UNCHANGED <<filter, docsFound, resBody>>
        ELSE IF FindThrows(built.filter, collection)
        THEN /\ filter' = built.filter
             /\ error' = "MongoServerError"
             /\ resStatus' = 500
             /\ UNCHANGED <<docsFound, resBody>>
        ELSE LET docs == Find(collection, built.filter)
             IN \E suffixes \in [1..CountMarkers(docs) -> Suffixes] :
                  /\ filter' = built.filter
                  /\ docsFound' = docs
                  /\ resBody' = FilterPlaceType(FlatMapMarkers(docs, suffixes),
                                                req.query.placeType)
                  /\ resStatus' = 200
                  /\ UNCHANGED error
  /\ UNCHANGED <<collection, req, call, ret, lookups>>
  /\ UNCHANGED <<pageVars, suggestVars>>

\* app.get('/api/places', ...): every document, projected
GetPlaces ==
  /\ req.route = "/api/places"
  /\ resStatus = 0
  /\ LET docs == SortByIdDesc(collection)
     IN \E suffixes \in [1..CountMarkers(docs) -> Suffixes] :
          LET markers == FlatMapMarkers(docs, suffixes)
          IN /\ docsFound' = docs
             /\ resBody' = [i \in 1..Len(markers) |-> LegacyPlace(markers[i])]
             /\ resStatus' = 200
  /\ UNCHANGED <<collection, req, filter, error, call, ret, lookups>>
  /\ UNCHANGED <<pageVars, suggestVars>>

(***************************************************************************)
(* The documents and the requests the filter is checked on.                *)
(***************************************************************************)
TypeBirth == <<"b", "i", "r", "t", "h">>
TypeTemple == <<"t", "e", "m", "p", "l", "e">>

\* a places object with the birth place only
BirthOnly(name, coords) ==
  [kind |-> "object",
   entries |-> << [type |-> TypeBirth, data |-> Place(name, coords)] >>]

FilterDocs ==
  { [_id |-> 1,
     saint |-> <<"B", "a", "s", "a", "v", "a", "n", "n", "a">>,
     tradition |-> <<"V", "U+012B", "r", "a", "U+015B", "a", "i", "v", "a">>,
     traditionType |-> <<"B", "h", "a", "k", "t", "i">>,
     gender |-> <<"M", "a", "l", "e">>,
     period |-> <<"1", "2", "t", "h", " ", "c", ".">>,
     language |-> <<"K", "a", "n", "n", "a", "d", "a">>,
     philosophy |-> <<"M", "o", "n", "i", "s", "m">>,
     startYear |-> Undefined,
     places |-> BirthOnly(<<"B", "a", "g", "e", "v", "a", "d", "i">>,
                          JsArray(<<16, 75>>))],
    [_id |-> 2,
     saint |-> <<"A", "k", "k", "a", " ", "M", "a", "h", "a", "d", "e", "v", "i">>,
     tradition |-> <<"L", "i", "U+1E45", "g", "U+0101", "y", "a", "t">>,
     traditionType |-> <<"B", "h", "a", "k", "t", "i">>,
     gender |-> <<"F", "e", "m", "a", "l", "e">>,
     period |-> <<"M", "e", "d", "i", "e", "v", "a", "l">>,
     language |-> <<"K", "a", "n", "n", "a", "d", "a">>,
     philosophy |-> <<"D", "e", "v", "o", "t", "i", "o", "n">>,
     startYear |-> <<"1", "1", "3", "0">>,
     places |-> BirthOnly(<<"U", "d", "u", "t", "a", "d", "i">>, JsNull)],
    [_id |-> 3,
     saint |-> <<"A", ".", " ", "P", "r", "a", "b", "h", "u">>,
     tradition |-> <<"L", "i", "n", "g", "a", "y", "a", "t">>,
     traditionType |-> <<"B", "h", "a", "k", "t", "i">>,
     gender |-> <<"M", "a", "l", "e">>,
     period |-> <<"1", "2", "t", "h", " ", "c", ".">>,
     language |-> <<"K", "a", "n", "n", "a", "d", "a">>,
     philosophy |-> <<"S", "h", "u", "n", "y", "a">>,
     startYear |-> <<"1", "1", "0", "0">>,
     places |-> BirthOnly(<<"B", "a", "l", "l", "i", "g", "a", "v", "i">>,
                          JsArray(<<14, 75>>))],
    [_id |-> 4,
     saint |-> <<"C", "h", "a", "i", "t", "a", "n", "y", "a">>,
     tradition |-> <<"V", "a", "i", "s", "h", "n", "a", "v", "a">>,
     traditionType |-> <<"B", "h", "a", "k", "t", "i">>,
     gender |-> <<"M", "a", "l", "e">>,
     period |-> <<"1", "5", "t", "h", " ", "c", ".">>,
     language |-> <<"B", "e", "n", "g", "a", "l", "i", " ", "(", "B", "a", "n",
                    "g", "l", "a", ")">>,
     philosophy |-> <<"A", "c", "h", "i", "n", "t", "y", "a">>,
     startYear |-> <<"1", "4", "8", "6">>,
     places |-> BirthOnly(<<"N", "a", "b", "a", "d", "w", "i", "p">>, JsNull)],
    [_id |-> 5,
     saint |-> <<"K", "a", "b", "i", "r">>,
     tradition |-> <<"S", "a", "n", "t", " ", "(", "N", "i", "r", "g", "u", "n",
                     "a", ")">>,
     traditionType |-> <<"S", "u", "f", "i">>,
     gender |-> <<"M", "a", "l", "e">>,
     period |-> <<"(", "1", "5", "t", "h", " ", "c", ".", ")">>,
     language |-> <<"H", "i", "n", "d", "i">>,
     philosophy |-> <<"N", "i", "r", "g", "u", "n", "a">>,
     startYear |-> Undefined,
     places |-> BirthOnly(<<"V", "a", "r", "a", "n", "a", "s", "i">>, JsNull)] }

\* free-text criteria values: a letter, the dot and the open parenthesis
TextAlphabet == {"A", ".", "("}

RECURSIVE StringsUpTo(_, _)
StringsUpTo(alphabet, n) ==
  IF n = 0 THEN {<<>>}
  ELSE LET shorter == StringsUpTo(alphabet, n - 1)
       IN shorter \cup {Append(s, c) : s \in shorter, c \in alphabet}

\* every string over the alphabet up to MaxTextLen, and two longer samples:
\* "A." (a letter and a special character) and "TH C" (upper case, a space)
TextValues ==
  StringsUpTo(TextAlphabet, MaxTextLen)
  \cup { <<"A", ".">>, <<"T", "H", " ", "C">> }

\* year bounds: empty, integers below, between and above the stored years
\* and the fallbacks, a string without digits and digits followed by a letter
YearValues ==
  { <<>>, <<"0">>, <<"-", "5">>, <<"1", "0", "0", "0">>,
    <<"1", "2", "0", "0">>, <<"9", "9", "9", "9">>, <<"x">>, <<"5", "x">> }

\* the values a criteria key is drawn from
ValuesOf(key) ==
  CASE key = "tradition" ->
         TextValues \cup { <<"l", "i", "n", "g", "a", "y", "a", "t">>,
                           <<" ", "L", "i", "n", "g", "a", "y", "a", "t", " ">> }
    [] key = "language" -> TextValues \cup { <<"h", "i", "n", "d", "i">> }
    [] key = "traditionType" -> { <<>>, <<"B", "h", "a", "k", "t", "i">> }
    [] key = "gender" -> { <<>>, <<"F", "e", "m", "a", "l", "e">> }
    [] key = "placeType" -> { <<"a", "l", "l">>, TypeBirth }
    [] key \in {"startYearMin", "startYearMax"} -> YearValues
    [] OTHER -> TextValues

\* req.query with the given keys set and every other key absent
QueryOf(given) ==
  [k \in QueryKeys |-> IF k \in DOMAIN given THEN given[k] ELSE Undefined]

\* the queries with no criterion, with one and with two
FilterQueries ==
  {QueryOf(EmptyObj)}
  \cup UNION { {QueryOf(k :> v) : v \in ValuesOf(k)} : k \in QueryKeys }
  \cup UNION { {QueryOf((kk[1] :> v1) @@ (kk[2] :> v2)) :
                  v1 \in ValuesOf(kk[1]), v2 \in ValuesOf(kk[2])} :
               kk \in {pair \in QueryKeys \X QueryKeys : pair[1] # pair[2]} }

\* the collections the request finds: up to MaxSeedDocs of the documents
SeedCollections ==
  {docs \in SUBSET FilterDocs : Cardinality(docs) <= MaxSeedDocs}

InitFilter ==
  /\ collection \in SeedCollections
  /\ req \in {[route |-> "/api/traditions", query |-> q] : q \in FilterQueries}
  /\ filter = EmptyObj
  /\ docsFound = <<>>
  /\ error = "none"
  /\ resStatus = 0
  /\ resBody = <<>>
  /\ call = NoCall
  /\ ret = NotReturned
  /\ lookups = <<>>
  /\ PageIdle

NextFilter == GetTraditions

SpecFilter == InitFilter /\ [][NextFilter]_vars

(***************************************************************************)
(* The documents and the requests the projection is checked on: one        *)
(* document whose places hold a birth and a temple entry, each null, one   *)
(* place or an array of places (of one place at most for birth), beside it *)
(* possibly one more document.                                             *)
(***************************************************************************)
\* the longest array of places of an entry
MaxArrayLen == 2

\* what a place of the documents is: null, a place without coords, with two
\* coordinates, with three
ItemKinds == {"null", "nocoords", "pair", "triple"}

\* the place of a kind; its name tells the places of one document apart
ItemOf(kind, name) ==
  CASE kind = "null" -> JsNull
    [] kind = "nocoords" -> Place(name, JsNull)
    [] kind = "pair" -> Place(name, JsArray(<<1, 2>>))
    [] kind = "triple" -> Place(name, JsArray(<<1, 2, 3>>))

\* the values of one entry of places, the names starting with letter: null,
\* one place, an array of up to maxLen places
EntryValues(letter, maxLen) ==
  {JsNull}
  \cup {ItemOf(kind, <<letter>>) : kind \in ItemKinds \ {"null"}}
  \cup UNION { {JsArray([i \in 1..n |-> ItemOf(kinds[i], <<letter, i>>)]) :
                  kinds \in [1..n -> ItemKinds]} : n \in 0..maxLen }

\* a document with the given places
MarkerDoc(places) ==
  [_id |-> 7,
   saint |-> <<"M", "i", "r", "a">>,
   tradition |-> <<"V", "a", "i", "s", "h", "n", "a", "v", "a">>,
   traditionType |-> <<"B", "h", "a", "k", "t", "i">>,
   gender |-> <<"F", "e", "m", "a", "l", "e">>,
   period |-> <<"1", "6", "t", "h", " ", "c", ".">>,
   language |-> <<"H", "i", "n", "d", "i">>,
   philosophy |-> <<"S", "a", "g", "u", "n", "a">>,
   startYear |-> <<"1", "4", "9", "8">>,
   places |-> places]

MarkerDocs ==
  {MarkerDoc([kind |-> "undefined"])}
  \cup {MarkerDoc([kind |-> "object",
                   entries |-> << [type |-> TypeBirth, data |-> b],
                                  [type |-> TypeTemple, data |-> t] >>]) :
          b \in EntryValues("X", 1), t \in EntryValues("Y", MaxArrayLen)}

\* the requests: the marker list, whole and of one place type, and the
\* legacy list of places
MarkerRequests ==
  { [route |-> "/api/traditions", query |-> QueryOf(EmptyObj)],
    [route |-> "/api/traditions", query |-> QueryOf("placeType" :> TypeTemple)],
    [route |-> "/api/places", query |-> QueryOf(EmptyObj)] }

InitMarkers ==
  /\ collection \in {{doc} \cup more :
                       doc \in MarkerDocs,
                       more \in {{}, {other \in FilterDocs : other._id = 1}}}
  /\ req \in MarkerRequests
  /\ filter = EmptyObj
  /\ docsFound = <<>>
  /\ error = "none"
  /\ resStatus = 0
  /\ resBody = <<>>
  /\ call = NoCall
  /\ ret = NotReturned
  /\ lookups = <<>>
  /\ PageIdle

NextMarkers == GetTraditions \/ GetPlaces

SpecMarkers == InitMarkers /\ [][NextMarkers]_vars

(***************************************************************************)
(* String operations of the value parsers.                                 *)
(***************************************************************************)
\* null, as a returned value
Null == <<"null">>

\* Object, the function found under the key "constructor" of every object
ObjectFunction == <<"function Object">>

\* v.length: Object.length is 1
JsLength(v) == IF v = ObjectFunction THEN 1 ELSE Len(v)

\* String.prototype.toUpperCase, one character
ToUpperChar(c) ==
  CASE c = "a" -> "A" [] c = "b" -> "B" [] c = "c" -> "C" [] c = "d" -> "D"
    [] c = "e" -> "E" [] c = "f" -> "F" [] c = "g" -> "G" [] c = "h" -> "H"
    [] c = "i" -> "I" [] c = "j" -> "J" [] c = "k" -> "K" [] c = "l" -> "L"
    [] c = "m" -> "M" [] c = "n" -> "N" [] c = "o" -> "O" [] c = "p" -> "P"
    [] c = "q" -> "Q" [] c = "r" -> "R" [] c = "s" -> "S" [] c = "t" -> "T"
    [] c = "u" -> "U" [] c = "v" -> "V" [] c = "w" -> "W" [] c = "x" -> "X"
    [] c = "y" -> "Y" [] c = "z" -> "Z"
    [] c = "U+00E4" -> "U+00C4" [] c = "U+00E5" -> "U+00C5"
    [] c = "U+00F6" -> "U+00D6" [] c = "U+0101" -> "U+0100"
    [] c = "U+012B" -> "U+012A" [] c = "U+015B" -> "U+015A"
    [] c = "U+1E45" -> "U+1E44"
    [] OTHER -> c

\* how many white-space characters s holds from position p on
RECURSIVE WsRun(_, _)
WsRun(s, p) ==
  IF p <= Len(s) /\ IsWhiteSpace(s[p]) THEN 1 + WsRun(s, p + 1) ELSE 0

\* the first position from p on where s holds the character c, 0 if none
RECURSIVE IndexOfChar(_, _, _)
IndexOfChar(s, c, p) ==
  IF p > Len(s) THEN 0
  ELSE IF s[p] = c THEN p
  ELSE IndexOfChar(s, c, p + 1)

\* s holds the word at position p, letter case aside (word is lower case)
WordAt(s, p, word) ==
  /\ p >= 1
  /\ p + Len(word) - 1 <= Len(s)
  /\ \A j \in 1..Len(word) : ToLowerChar(s[p + j - 1]) = word[j]

\* String.prototype.includes
Includes(hay, needle) ==
  \E o \in 0..(Len(hay) - Len(needle)) :
    \A j \in 1..Len(needle) : hay[o + j] = needle[j]

\* s without the characters of chars: replace(/[()]/g, '')
RemoveChars(s, chars) == SelectSeq(s, LAMBDA c : c \notin chars)

\* replace(/\s+/g, ' ')
RECURSIVE CollapseSpaces(_)
CollapseSpaces(s) ==
  IF s = <<>> THEN <<>>
  ELSE IF IsWhiteSpace(Head(s))
  THEN <<" ">> \o CollapseSpaces(SubSeq(s, 1 + WsRun(s, 1), Len(s)))
  ELSE <<Head(s)>> \o CollapseSpaces(Tail(s))

\* the characters of the class [...] of the split expression of
\* parseTraditionValue, as the file holds them
DashClass == {"U+00C4", "U+00EC", "U+00EE", "U+201A"}

\* the length of the separator that starts at position p of s, 0 if none
\* starts there, for each of the split expressions:
\*   "dash"       /\s*[...]\s*|\s+-\s+/     (DashClass)
\*   "slash"      /\s*\/\s*/
\*   "commaslash" /[,\/]/
\*   "langsep"    /[,\/;|&]|\s+and\s+/gi
\*   "spaces"     /\s+/
\*   "space"      ' '
\*   "comma"      ','
SepLen(re, s, p) ==
  LET w == WsRun(s, p)
      q == p + w
  IN CASE re = "dash" ->
            IF q <= Len(s) /\ s[q] \in DashClass
            THEN w + 1 + WsRun(s, q + 1)
            ELSE IF w >= 1 /\ q <= Len(s) /\ s[q] = "-" /\ WsRun(s, q + 1) >= 1
            THEN w + 1 + WsRun(s, q + 1)
            ELSE 0
       [] re = "slash" ->
            IF q <= Len(s) /\ s[q] = "/" THEN w + 1 + WsRun(s, q + 1) ELSE 0
       [] re = "commaslash" -> IF s[p] \in {",", "/"} THEN 1 ELSE 0
       [] re = "langsep" ->
            IF s[p] \in {",", "/", ";", "|", "&"} THEN 1
            ELSE IF w >= 1 /\ WordAt(s, q, <<"a", "n", "d">>)
                    /\ WsRun(s, q + 3) >= 1
            THEN w + 3 + WsRun(s, q + 3)
            ELSE 0
       [] re = "spaces" -> w
       [] re = "space" -> IF s[p] = " " THEN 1 ELSE 0
       [] re = "comma" -> IF s[p] = "," THEN 1 ELSE 0

\* String.prototype.split: the pieces of s between the separators, cur the
\* piece being read and p the position reached
RECURSIVE SplitFrom(_, _, _, _)
SplitFrom(re, s, p, cur) ==
  IF p > Len(s) THEN <<cur>>
  ELSE LET n == SepLen(re, s, p)
       IN IF n > 0 THEN <<cur>> \o SplitFrom(re, s, p + n, <<>>)
          ELSE SplitFrom(re, s, p + 1, Append(cur, s[p]))

Split(re, s) == SplitFrom(re, s, 1, <<>>)

\* results.add(x) on a Set that keeps insertion order
SetAdd(results, x) ==
  IF \E i \in 1..Len(results) : results[i] = x THEN results
  ELSE Append(results, x)

(***************************************************************************)
(* normalizeLanguageName and normalizeTraditionName.                       *)
(***************************************************************************)
\* the normalizations object of normalizeLanguageName
LanguageNormalizations ==
  { <<<<"b", "r", "a", "j", "b", "h", "a", "s", "a">>,
      <<"B", "r", "a", "j", " ", "B", "h", "a", "s", "h", "a">>>>,
    <<<<"b", "r", "a", "j", "b", "h", "a", "s", "h", "a">>,
      <<"B", "r", "a", "j", " ", "B", "h", "a", "s", "h", "a">>>>,
    <<<<"b", "r", "a", "j", " ", "b", "h", "a", "s", "a">>,
      <<"B", "r", "a", "j", " ", "B", "h", "a", "s", "h", "a">>>>,
    <<<<"b", "r", "a", "j">>,
      <<"B", "r", "a", "j", " ", "B", "h", "a", "s", "h", "a">>>>,
    <<<<"b", "r", "i", "j", " ", "b", "h", "a", "s", "h", "a">>,
      <<"B", "r", "a", "j", " ", "B", "h", "a", "s", "h", "a">>>>,
    <<<<"b", "r", "i", "j", "b", "h", "a", "s", "h", "a">>,
      <<"B", "r", "a", "j", " ", "B", "h", "a", "s", "h", "a">>>>,
    <<<<"h", "i", "n", "d", "i", "i">>,
      <<"H", "i", "n", "d", "i">>>>,
    <<<<"h", "i", "n", "d", "u", "s", "t", "a", "n", "i">>,
      <<"H", "i", "n", "d", "i">>>>,
    <<<<"s", "a", "n", "s", "k", "i", "r", "t">>,
      <<"S", "a", "n", "s", "k", "r", "i", "t">>>>,
    <<<<"s", "a", "n", "k", "r", "i", "t">>,
      <<"S", "a", "n", "s", "k", "r", "i", "t">>>>,
    <<<<"s", "a", "n", "s", "k", "r", "i", "t", "-", "d", "e", "r", "i", "v", "e", "d">>,
      <<"S", "a", "n", "s", "k", "r", "i", "t">>>>,
    <<<<"b", "a", "n", "g", "l", "a">>,
      <<"B", "e", "n", "g", "a", "l", "i">>>>,
    <<<<"p", "a", "n", "j", "a", "b", "i">>,
      <<"P", "u", "n", "j", "a", "b", "i">>>>,
    <<<<"t", "a", "m", "i", "z", "h">>,
      <<"T", "a", "m", "i", "l">>>>,
    <<<<"t", "e", "l", "e", "g", "u">>,
      <<"T", "e", "l", "u", "g", "u">>>>,
    <<<<"k", "a", "n", "n", "a", "d">>,
      <<"K", "a", "n", "n", "a", "d", "a">>>>,
    <<<<"g", "u", "j", "r", "a", "t", "i">>,
      <<"G", "u", "j", "a", "r", "a", "t", "i">>>>,
    <<<<"a", "v", "a", "d", "h", "i">>,
      <<"A", "w", "a", "d", "h", "i">>>>,
    <<<<"m", "a", "i", "t", "h", "a", "l", "i">>,
      <<"M", "a", "i", "t", "h", "i", "l", "i">>>>,
    <<<<"f", "a", "r", "s", "i">>,
      <<"P", "e", "r", "s", "i", "a", "n">>>>,
    <<<<"o", "d", "i", "y", "a">>,
      <<"O", "d", "i", "a">>>>,
    <<<<"o", "r", "i", "y", "a">>,
      <<"O", "d", "i", "a">>>>,
    <<<<"m", "a", "r", "w", "a", "r", "i">>,
      <<"M", "a", "r", "w", "a", "r", "i">>>>,
    <<<<"s", "a", "n", "t", " ", "b", "h", "a", "s", "h", "a">>,
      <<"S", "a", "n", "t", " ", "B", "h", "a", "s", "h", "a">>>>,
    <<<<"k", "a", "s", "h", "m", "i", "r", "i">>,
      <<"K", "a", "s", "h", "m", "i", "r", "i">>>> }

\* the normalizations object of normalizeTraditionName, its keys as the
\* file holds them
TraditionNormalizations ==
  { <<<<"v", "a", "i", "s", "n", "a", "v", "a">>,
      <<"V", "a", "i", "s", "h", "n", "a", "v", "a">>>>,
    <<<<"v", "a", "i", "U+00B7", "U+03C0", "U+00A3", "U+00B7", "U+03C0", "U+00E1", "a", "v", "a">>,
      <<"V", "a", "i", "s", "h", "n", "a", "v", "a">>>>,
    <<<<"v", "a", "i", "s", "h", "n", "a", "v", "i", "s", "m">>,
      <<"V", "a", "i", "s", "h", "n", "a", "v", "a">>>>,
    <<<<"s", "a", "i", "v", "a">>,
      <<"S", "h", "a", "i", "v", "a">>>>,
    <<<<"U+2248", "U+00F5", "a", "i", "v", "a">>,
      <<"S", "h", "a", "i", "v", "a">>>>,
    <<<<"s", "h", "a", "i", "v", "i", "s", "m">>,
      <<"S", "h", "a", "i", "v", "a">>>>,
    <<<<"s", "i", "d", "d", "h", "U+0192", "U+00C5", "n", "t", "a">>,
      <<"S", "i", "d", "d", "h", "a", "n", "t", "a">>>>,
    <<<<"l", "i", "U+00B7", "U+03C0", "U+00D6", "g", "U+0192", "U+00C5", "y", "a", "t">>,
      <<"L", "i", "n", "g", "a", "y", "a", "t">>>>,
    <<<<"l", "i", "n", "g", "U+0192", "U+00C5", "y", "a", "t">>,
      <<"L", "i", "n", "g", "a", "y", "a", "t">>>>,
    <<<<"v", "U+0192", "U+00C5", "r", "k", "a", "r", "i">>,
      <<"V", "a", "r", "k", "a", "r", "i">>>>,
    <<<<"g", "a", "u", "U+00B7", "U+220F", "U+00E7", "U+0192", "U+00B4", "y", "a">>,
      <<"G", "a", "u", "d", "i", "y", "a">>>>,
    <<<<"g", "a", "u", "d", "U+0192", "U+00B4", "y", "a">>,
      <<"G", "a", "u", "d", "i", "y", "a">>>>,
    <<<<"v", "U+0192", "U+00B4", "r", "a", "U+2248", "U+00F5", "a", "i", "v", "a">>,
      <<"V", "i", "r", "a", "s", "h", "a", "i", "v", "a">>>>,
    <<<<"v", "i", "r", "a", "s", "a", "i", "v", "a">>,
      <<"V", "i", "r", "a", "s", "h", "a", "i", "v", "a">>>>,
    <<<<"U+0192", "U+00C5", "U+00B7", "U+220F", "U+00AA", "v", "U+0192", "U+00C5", "r", "s">>,
      <<"A", "l", "v", "a", "r", "s">>>>,
    <<<<"a", "l", "w", "a", "r", "s">>,
      <<"A", "l", "v", "a", "r", "s">>>>,
    <<<<"n", "U+0192", "U+00C5", "y", "a", "n", "U+0192", "U+00C5", "r", "s">>,
      <<"N", "a", "y", "a", "n", "a", "r", "s">>>>,
    <<<<"n", "a", "y", "a", "n", "m", "a", "r", "s">>,
      <<"N", "a", "y", "a", "n", "a", "r", "s">>>> }

\* normalizations[lowerName]: the value of the key, else what the object
\* inherits under that name (Object under "constructor"), else undefined
Lookup(normalizations, lowerName) ==
  IF \E pair \in normalizations : pair[1] = lowerName
  THEN (CHOOSE pair \in normalizations : pair[1] = lowerName)[2]
  ELSE IF lowerName = <<"c", "o", "n", "s", "t", "r", "u", "c", "t", "o", "r">>
  THEN ObjectFunction
  ELSE Undefined

\* word.charAt(0).toUpperCase() + word.slice(1)
Capitalize(word) ==
  IF word = <<>> THEN <<>> ELSE <<ToUpperChar(Head(word))>> \o Tail(word)

\* words.join(' ')
RECURSIVE JoinSpace(_)
JoinSpace(words) ==
  IF words = <<>> THEN <<>>
  ELSE IF Len(words) = 1 THEN Head(words)
  ELSE Head(words) \o <<" ">> \o JoinSpace(Tail(words))

\* cleaned.split(' ').map(capitalize).join(' ')
TitleCase(cleaned) ==
  LET words == Split("space", cleaned)
  IN JoinSpace([i \in 1..Len(words) |-> Capitalize(words[i])])

\* mutant of NormalizeLanguageName: the length floor is 1, not 2
NormalizeLanguageNameFloorOne(name) ==
  IF ~Truthy(name) THEN name
  ELSE LET cleaned == CollapseSpaces(RemoveChars(Trim(name), {"(", ")"}))
           found == Lookup(LanguageNormalizations, ToLowerCase(cleaned))
       IN IF Len(cleaned) < 1 THEN Null
          ELSE IF found # Undefined THEN found
          ELSE TitleCase(cleaned)

\* normalizeLanguageName(name)
NormalizeLanguageName(name) ==
  IF ~Truthy(name) THEN name
  ELSE LET cleaned == CollapseSpaces(RemoveChars(Trim(name), {"(", ")"}))
           found == Lookup(LanguageNormalizations, ToLowerCase(cleaned))
       IN IF Len(cleaned) < 2 THEN Null
          ELSE IF found # Undefined THEN found
          ELSE TitleCase(cleaned)

\* normalizeTraditionName(name)
NormalizeTraditionName(name) ==
  IF ~Truthy(name) THEN name
  ELSE LET cleaned == CollapseSpaces(Trim(name))
           found == Lookup(TraditionNormalizations, ToLowerCase(cleaned))
       IN IF Len(cleaned) < 2 THEN Null
          ELSE IF found # Undefined THEN found
          ELSE cleaned

(***************************************************************************)
(* parseLanguageValue.                                                     *)
(***************************************************************************)
\* typeof value === 'string'
IsString(value) == value \notin {Undefined, Null, ObjectFunction, <<"number">>}

\* how long a parenthetical is at least to be removed as a description
LongParenthetical == 50

\* replace(/\([^)]{50,}\)/g, ''), from position p on
RECURSIVE RemoveLongParens(_, _)
RemoveLongParens(s, p) ==
  IF p > Len(s) THEN <<>>
  ELSE LET k == IF s[p] = "(" THEN IndexOfChar(s, ")", p + 1) ELSE 0
       IN IF k # 0 /\ k - p - 1 >= LongParenthetical
          THEN RemoveLongParens(s, k + 1)
          ELSE <<s[p]>> \o RemoveLongParens(s, p + 1)

\* where the match of /\(([^)]+)\s*dialects?\)/i that starts at p ends, 0 if
\* none starts there: "(" at p, and what stands before the next ")" ends
\* with "dialect" or "dialects" after one character at least
DialectEnd(s, p) ==
  LET k == IF s[p] = "(" THEN IndexOfChar(s, ")", p + 1) ELSE 0
  IN IF k # 0
        /\ \/ (k - p - 1 >= 8 /\ WordAt(s, k - 7, <<"d", "i", "a", "l", "e", "c", "t">>))
           \/ (k - p - 1 >= 9 /\ WordAt(s, k - 8, <<"d", "i", "a", "l", "e", "c", "t", "s">>))
     THEN k ELSE 0

\* workingValue.match(/\(([^)]+)\s*dialects?\)/gi), from position p on
RECURSIVE DialectMatches(_, _)
DialectMatches(s, p) ==
  IF p > Len(s) THEN <<>>
  ELSE LET k == DialectEnd(s, p)
       IN IF k # 0 THEN <<SubSeq(s, p, k)>> \o DialectMatches(s, k + 1)
          ELSE DialectMatches(s, p + 1)

\* workingValue.replace(/\([^)]+\s*dialects?\)/gi, ''), from position p on
RECURSIVE RemoveDialects(_, _)
RemoveDialects(s, p) ==
  IF p > Len(s) THEN <<>>
  ELSE LET k == DialectEnd(s, p)
       IN IF k # 0 THEN RemoveDialects(s, k + 1)
          ELSE <<s[p]>> \o RemoveDialects(s, p + 1)

\* match.replace(/\(|\)|dialects?/gi, ''), from position p on
RECURSIVE StripDialectWords(_, _)
StripDialectWords(s, p) ==
  IF p > Len(s) THEN <<>>
  ELSE IF s[p] \in {"(", ")"} THEN StripDialectWords(s, p + 1)
  ELSE IF WordAt(s, p, <<"d", "i", "a", "l", "e", "c", "t", "s">>)
  THEN StripDialectWords(s, p + 8)
  ELSE IF WordAt(s, p, <<"d", "i", "a", "l", "e", "c", "t">>)
  THEN StripDialectWords(s, p + 7)
  ELSE <<s[p]>> \o StripDialectWords(s, p + 1)

\* the trimmed pieces longer than one character, in order
RECURSIVE CleanedLongerThanOne(_)
CleanedLongerThanOne(parts) ==
  IF parts = <<>> THEN <<>>
  ELSE LET cleaned == Trim(Head(parts))
       IN (IF Len(cleaned) > 1 THEN <<cleaned>> ELSE <<>>)
          \o CleanedLongerThanOne(Tail(parts))

\* the dialects one match names: inner.split(/[,\/]/), trimmed, length > 1
DialectsOf(match) ==
  CleanedLongerThanOne(Split("commaslash", Trim(StripDialectWords(match, 1))))

\* extractedDialects, over all the matches
RECURSIVE ExtractedDialects(_)
ExtractedDialects(matches) ==
  IF matches = <<>> THEN <<>>
  ELSE DialectsOf(Head(matches)) \o ExtractedDialects(Tail(matches))

\* replace(/\s*\([^)]*\)/g, ''), from position p on
RECURSIVE RemoveParens(_, _)
RemoveParens(s, p) ==
  IF p > Len(s) THEN <<>>
  ELSE LET q == p + WsRun(s, p)
           k == IF q <= Len(s) /\ s[q] = "(" THEN IndexOfChar(s, ")", q + 1)
                ELSE 0
       IN IF k # 0 THEN RemoveParens(s, k + 1)
          ELSE <<s[p]>> \o RemoveParens(s, p + 1)

SkipPhrases ==
  { <<"d", "e", "r", "i", "v", "e", "d", " ", "t", "e", "r", "m", "s">>,
    <<"i", "n", "f", "l", "u", "e", "n", "c", "e", "s">>,
    <<"o", "t", "h", "e", "r", " ", "l", "o", "c", "a", "l">>,
    <<"s", "o", "m", "e", "t", "i", "m", "e", "s">>,
    <<"s", "p", "i", "r", "i", "t", "u", "a", "l", " ", "v", "e", "r", "n", "a", "c", "u", "l", "a", "r">>,
    <<"c", "o", "m", "m", "o", "n", " ", "t", "o">>,
    <<"w", "o", "r", "d", "s">>,
    <<"f", "r", "o", "m", " ", "e", "a", "s", "t", "e", "r", "n">>,
    <<"p", "r", "i", "m", "a", "r", "y">>,
    <<"s", "e", "c", "o", "n", "d", "a", "r", "y">> }

SkipWords ==
  { <<"p", "r", "i", "m", "a", "r", "y">>,
    <<"s", "e", "c", "o", "n", "d", "a", "r", "y">>,
    <<"s", "o", "m", "e", "t", "i", "m", "e", "s">>,
    <<"m", "o", "s", "t", "l", "y">>,
    <<"m", "a", "i", "n", "l", "y">> }

\* the body of the forEach over the parts: results after one part
LanguagePartAdded(results, part) ==
  LET cleaned == Trim(part)
      lowerCleaned == ToLowerCase(cleaned)
      normalized == NormalizeLanguageName(cleaned)
  IN IF Len(cleaned) < 2 THEN results
     ELSE IF \E phrase \in SkipPhrases : Includes(lowerCleaned, phrase)
     THEN results
     ELSE IF lowerCleaned \in SkipWords THEN results
     ELSE IF Truthy(normalized) /\ normalized # Null /\ JsLength(normalized) > 1
     THEN SetAdd(results, normalized)
     ELSE results

RECURSIVE LanguagePartsAdded(_, _)
LanguagePartsAdded(results, parts) ==
  IF parts = <<>> THEN results
  ELSE LanguagePartsAdded(LanguagePartAdded(results, Head(parts)), Tail(parts))

\* mutant of ParseLanguageValue: the dialects of the parentheticals are not
\* added to the parts
ParseLanguageValueNoDialects(value) ==
  IF ~Truthy(value) \/ ~IsString(value) THEN <<>>
  ELSE LET noLong == RemoveLongParens(value, 1)
           noParens == RemoveParens(RemoveDialects(noLong, 1), 1)
       IN LanguagePartsAdded(<<>>, Split("langsep", noParens))

\* parseLanguageValue(value)
ParseLanguageValue(value) ==
  IF ~Truthy(value) \/ ~IsString(value) THEN <<>>
  ELSE LET noLong == RemoveLongParens(value, 1)
           extractedDialects == ExtractedDialects(DialectMatches(noLong, 1))
           noParens == RemoveParens(RemoveDialects(noLong, 1), 1)
       IN LanguagePartsAdded(<<>>, Split("langsep", noParens)
                                   \o extractedDialects)

(***************************************************************************)
(* parseTraditionValue.                                                    *)
(***************************************************************************)
\* /word/i.test(s)
TestIgnoreCase(s, word) == \E p \in 1..Len(s) : WordAt(s, p, word)

\* the words that make a parenthetical a description
DescriptionWords ==
  { <<"d", "e", "v", "o", "t", "i", "o", "n">>,
    <<"r", "o", "o", "t", "e", "d">>,
    <<"l", "i", "n", "e", "a", "g", "e">>,
    <<"p", "h", "i", "l", "o", "s", "o", "p", "h", "i", "c", "a", "l">>,
    <<"s", "y", "n", "t", "h", "e", "s", "i", "s">>,
    <<"m", "o", "v", "e", "m", "e", "n", "t">>,
    <<"t", "r", "a", "d", "i", "t", "i", "o", "n">>,
    <<"s", "c", "h", "o", "o", "l">>,
    <<"c", "o", "m", "m", "o", "n">>,
    <<"s", "p", "i", "r", "i", "t", "u", "a", "l">> }

\* subPart.match(/^([^(]+)\s*\(([^)]+)\)/): the first "(" after one
\* character at least, and the next ")" after one character at least
ParenMatch(subPart) ==
  LET i == IndexOfChar(subPart, "(", 1)
      k == IF i = 0 THEN 0 ELSE IndexOfChar(subPart, ")", i + 1)
  IN IF i >= 2 /\ k >= i + 2
     THEN [matched |-> TRUE,
           main |-> SubSeq(subPart, 1, i - 1),
           paren |-> SubSeq(subPart, i + 1, k - 1)]
     ELSE [matched |-> FALSE, main |-> <<>>, paren |-> <<>>]

\* the alternates of a parenthetical that are added, normalized
RECURSIVE AltsAdded(_, _)
AltsAdded(results, altParts) ==
  IF altParts = <<>> THEN results
  ELSE LET cleanAlt == Trim(Head(altParts))
           kept == /\ Len(cleanAlt) > 3
                   /\ ~TestIgnoreCase(cleanAlt, <<"c", "a", "n", "o", "n">>)
                   /\ ~TestIgnoreCase(cleanAlt, <<"n", "a", "y", "a", "n", "a", "r", "s">>)
       IN AltsAdded(IF kept THEN SetAdd(results, NormalizeTraditionName(cleanAlt))
                    ELSE results,
                    Tail(altParts))

\* the words replace(/\s+(tradition|movement|devotion|canon)$/i, '') removes
SuffixWords ==
  { <<"t", "r", "a", "d", "i", "t", "i", "o", "n">>,
    <<"m", "o", "v", "e", "m", "e", "n", "t">>,
    <<"d", "e", "v", "o", "t", "i", "o", "n">>,
    <<"c", "a", "n", "o", "n">> }

\* cleaned.replace(/\s+(tradition|movement|devotion|canon)$/i, '')
StripSuffix(cleaned) ==
  LET ends == {w \in SuffixWords :
                 /\ Len(cleaned) > Len(w)
                 /\ WordAt(cleaned, Len(cleaned) - Len(w) + 1, w)
                 /\ IsWhiteSpace(cleaned[Len(cleaned) - Len(w)])}
  IN IF ends = {} THEN cleaned
     ELSE LET w == CHOOSE w \in ends : TRUE
          IN TrimEnd(SubSeq(cleaned, 1, Len(cleaned) - Len(w)))

\* mutant of SubPartAdded: a part without parenthetical is kept whatever its
\* length
SubPartAddedAnyLength(results, subPart) ==
  LET parenMatch == ParenMatch(subPart)
  IN IF parenMatch.matched
     THEN LET mainPart == Trim(parenMatch.main)
              parenContent == Trim(parenMatch.paren)
              withMain == IF Len(mainPart) > 2
                          THEN SetAdd(results, NormalizeTraditionName(mainPart))
                          ELSE results
              wordCount == Len(Split("spaces", parenContent))
              isDescription ==
                \/ wordCount > 5
                \/ \E w \in DescriptionWords : TestIgnoreCase(parenContent, w)
          IN IF ~isDescription /\ wordCount <= 4
             THEN AltsAdded(withMain, Split("slash", parenContent))
             ELSE withMain
     ELSE LET cleaned == StripSuffix(Trim(RemoveParens(subPart, 1)))
          IN SetAdd(results, NormalizeTraditionName(cleaned))

\* mutant of SubPartAdded: the main part is kept only beside alternates,
\* and dropped when the parenthetical is a description
SubPartAddedMainWithAlts(results, subPart) ==
  LET parenMatch == ParenMatch(subPart)
  IN IF parenMatch.matched
     THEN LET mainPart == Trim(parenMatch.main)
              parenContent == Trim(parenMatch.paren)
              withMain == IF Len(mainPart) > 2
                          THEN SetAdd(results, NormalizeTraditionName(mainPart))
                          ELSE results
              wordCount == Len(Split("spaces", parenContent))
              isDescription ==
                \/ wordCount > 5
                \/ \E w \in DescriptionWords : TestIgnoreCase(parenContent, w)
          IN IF ~isDescription /\ wordCount <= 4
             THEN AltsAdded(withMain, Split("slash", parenContent))
             ELSE results
     ELSE LET cleaned == StripSuffix(Trim(RemoveParens(subPart, 1)))
          IN IF Len(cleaned) > 2
             THEN SetAdd(results, NormalizeTraditionName(cleaned))
             ELSE results

\* the body of the forEach over slashParts: results after one subPart
SubPartAdded(results, subPart) ==
  LET parenMatch == ParenMatch(subPart)
  IN IF parenMatch.matched
     THEN LET mainPart == Trim(parenMatch.main)
              parenContent == Trim(parenMatch.paren)
              withMain == IF Len(mainPart) > 2
                          THEN SetAdd(results, NormalizeTraditionName(mainPart))
                          ELSE results
              wordCount == Len(Split("spaces", parenContent))
              isDescription ==
                \/ wordCount > 5
                \/ \E w \in DescriptionWords : TestIgnoreCase(parenContent, w)
          IN IF ~isDescription /\ wordCount <= 4
             THEN AltsAdded(withMain, Split("slash", parenContent))
             ELSE withMain
     ELSE LET cleaned == StripSuffix(Trim(RemoveParens(subPart, 1)))
          IN IF Len(cleaned) > 2
             THEN SetAdd(results, NormalizeTraditionName(cleaned))
             ELSE results

RECURSIVE SubPartsAdded(_, _)
SubPartsAdded(results, subParts) ==
  IF subParts = <<>> THEN results
  ELSE SubPartsAdded(SubPartAdded(results, Head(subParts)), Tail(subParts))

RECURSIVE DashPartsAdded(_, _)
DashPartsAdded(results, dashParts) ==
  IF dashParts = <<>> THEN results
  ELSE DashPartsAdded(SubPartsAdded(results, Split("slash", Head(dashParts))),
                      Tail(dashParts))

\* parseTraditionValue(value)
ParseTraditionValue(value) ==
  IF ~Truthy(value) \/ ~IsString(value) THEN <<>>
  ELSE DashPartsAdded(<<>>, Split("dash", value))

(***************************************************************************)
(* extractUniqueValues.  a.localeCompare(b) is modelled as the collation   *)
(* of the characters the values are drawn over: first the letters, case    *)
(* and accents aside (white space before punctuation before digits before  *)
(* letters), then the accents, then lower case before upper case.          *)
(***************************************************************************)
\* the letter a character stands for, accents and case aside
BaseLetter(c) ==
  LET l == ToLowerChar(c)
  IN CASE l = "U+0101" -> "a" [] l = "U+012B" -> "i" [] l = "U+015B" -> "s"
       [] l = "U+1E45" -> "n" [] l = "U+00E4" -> "a" [] l = "U+00E5" -> "a"
       [] l = "U+00F6" -> "o"
       [] OTHER -> l

CollationOrder ==
  << " ", "-", ",", ";", ".", "(", ")", "/", "&",
     "0", "1", "2", "3", "4", "5", "6", "7", "8", "9",
     "a", "b", "c", "d", "e", "f", "g", "h", "i", "j", "k", "l", "m",
     "n", "o", "p", "q", "r", "s", "t", "u", "v", "w", "x", "y", "z" >>

\* the primary weight of a character; a character outside CollationOrder
\* sorts after the letters
PrimaryWeight(c) ==
  LET at == {i \in 1..Len(CollationOrder) : CollationOrder[i] = BaseLetter(c)}
  IN IF at = {} THEN Len(CollationOrder) + 1 ELSE CHOOSE i \in at : TRUE

\* the secondary weight: an accented letter after the plain one
SecondaryWeight(c) == IF BaseLetter(c) = ToLowerChar(c) THEN 0 ELSE 1

\* the tertiary weight: upper case after lower case
TertiaryWeight(c) == IF ToLowerChar(c) = c THEN 0 ELSE 1

\* the comparison of two sequences of weights: -1, 0 or 1
RECURSIVE CompareWeights(_, _)
CompareWeights(a, b) ==
  IF a = <<>> /\ b = <<>> THEN 0
  ELSE IF a = <<>> THEN -1
  ELSE IF b = <<>> THEN 1
  ELSE IF Head(a) < Head(b) THEN -1
  ELSE IF Head(a) > Head(b) THEN 1
  ELSE CompareWeights(Tail(a), Tail(b))

\* a.localeCompare(b)
LocaleCompare(a, b) ==
  LET p == CompareWeights([i \in 1..Len(a) |-> PrimaryWeight(a[i])],
                          [i \in 1..Len(b) |-> PrimaryWeight(b[i])])
      s == CompareWeights([i \in 1..Len(a) |-> SecondaryWeight(a[i])],
                          [i \in 1..Len(b) |-> SecondaryWeight(b[i])])
      t == CompareWeights([i \in 1..Len(a) |-> TertiaryWeight(a[i])],
                          [i \in 1..Len(b) |-> TertiaryWeight(b[i])])
  IN IF p # 0 THEN p ELSE IF s # 0 THEN s ELSE t

\* sorted with x put in its place
RECURSIVE InsertSorted(_, _)
InsertSorted(sorted, x) ==
  IF sorted = <<>> THEN <<x>>
  ELSE IF LocaleCompare(x, Head(sorted)) < 0 THEN <<x>> \o sorted
  ELSE <<Head(sorted)>> \o InsertSorted(Tail(sorted), x)

\* Array.from(uniqueSet).sort((a, b) => a.localeCompare(b))
RECURSIVE SortLocale(_)
SortLocale(items) ==
  IF items = <<>> THEN <<>>
  ELSE InsertSorted(SortLocale(SubSeq(items, 1, Len(items) - 1)),
                    items[Len(items)])

\* parseFunction(value)
ParseFunction(fieldType, value) ==
  IF fieldType = "tradition" THEN ParseTraditionValue(value)
  ELSE ParseLanguageValue(value)

\* parsed.forEach(item => { if (item && item.length > 1) uniqueSet.add(item) })
RECURSIVE ItemsAdded(_, _)
ItemsAdded(uniqueSet, parsed) ==
  IF parsed = <<>> THEN uniqueSet
  ELSE LET item == Head(parsed)
       IN ItemsAdded(IF Truthy(item) /\ item # Null /\ JsLength(item) > 1
                     THEN SetAdd(uniqueSet, item) ELSE uniqueSet,
                     Tail(parsed))

\* values.forEach(value => ...)
RECURSIVE ValuesAdded(_, _, _)
ValuesAdded(uniqueSet, values, fieldType) ==
  IF values = <<>> THEN uniqueSet
  ELSE ValuesAdded(ItemsAdded(uniqueSet, ParseFunction(fieldType, Head(values))),
                   Tail(values), fieldType)

\* mutant of ExtractUniqueValues: the set is returned unsorted
ExtractUniqueValuesUnsorted(values, fieldType) ==
  ValuesAdded(<<>>, values, fieldType)

\* extractUniqueValues(values, fieldType)
ExtractUniqueValues(values, fieldType) ==
  SortLocale(ValuesAdded(<<>>, values, fieldType))

(***************************************************************************)
(* The calls of the normalizers, the parsers and the extractor.            *)
(***************************************************************************)
\* normalizeLanguageName(name) / normalizeTraditionName(name)
NormalizeName ==
  /\ call.fn = "normalize"
  /\ ~ret.done
  /\ ret' = [done |-> TRUE,
             value |-> IF call.kind = "tradition"
                       THEN NormalizeTraditionName(call.arg)
                       ELSE NormalizeLanguageName(call.arg)]
  /\ UNCHANGED <<call, collection, req, filter, docsFound, error, resStatus,
                 resBody, lookups>>
  /\ UNCHANGED <<pageVars, suggestVars>>

\* parseLanguageValue(value) / parseTraditionValue(value)
ParseValue ==
  /\ call.fn = "parseCompound"
  /\ ~ret.done
  /\ ret' = [done |-> TRUE,
             value |-> IF call.kind = "tradition"
                       THEN ParseTraditionValue(call.arg)
                       ELSE ParseLanguageValue(call.arg)]
  /\ UNCHANGED <<call, collection, req, filter, docsFound, error, resStatus,
                 resBody, lookups>>
  /\ UNCHANGED <<pageVars, suggestVars>>

\* extractUniqueValues(values, fieldType)
ExtractUnique ==
  /\ call.fn = "extractUnique"
  /\ ~ret.done
  /\ ret' = [done |-> TRUE, value |-> ExtractUniqueValues(call.arg, call.kind)]
  /\ UNCHANGED <<call, collection, req, filter, docsFound, error, resStatus,
                 resBody, lookups>>
  /\ UNCHANGED <<pageVars, suggestVars>>

(***************************************************************************)
(* The values the normalizers, the parsers and the extractor are called    *)
(* with.                                                                   *)
(***************************************************************************)
\* longest token drawn over TokenAlphabet
MaxTokenLen == 2
\* most raw values handed to extractUniqueValues
MaxRawValues == 2

Kinds == {"language", "tradition"}

TokenAlphabet == {"a", "B", " ", "("}

\* tokens: every string over TokenAlphabet up to MaxTokenLen, table keys in
\* several spellings, names outside the tables, of one word and of two
TokenSamples ==
  { <<"b", "a", "n", "g", "l", "a">>,
    <<"B", "a", "n", "g", "l", "a">>,
    <<"v", "a", "i", "s", "n", "a", "v", "a">>,
    <<"V", "A", "I", "S", "N", "A", "V", "A">>,
    <<"f", "o", "o">>,
    <<"f", "o", "o", " ", "b", "a", "r">>,
    <<"n", "e", "w", " ", " ", "d", "e", "l", "h", "i">>,
    <<" ", "h", "i", "n", "d", "i", " ">>,
    <<"H", "i", "n", "d", "u", "s", "t", "a", "n", "i">>,
    <<"c", "o", "n", "s", "t", "r", "u", "c", "t", "o", "r">>,
    <<"s", "a", "n", "s", "k", "r", "i", "t", "-", "d", "e", "r", "i", "v", "e", "d">>,
    <<"V", "U+012B", "r", "a", "U+015B", "a", "i", "v", "a">>,
    <<"v", "U+012B", "r", "a", "U+015B", "a", "i", "v", "a">>,
    <<"L", "i", "U+1E45", "g", "U+0101", "y", "a", "t">>,
    <<"U+015B", "a", "i", "v", "a">>,
    <<"(", "a", "b", ")">>,
    <<"a", "(", "b">>,
    <<"t", "a", "m", "i", "l", " ", "n", "a", "d", "u">> }

Tokens == StringsUpTo(TokenAlphabet, MaxTokenLen) \cup TokenSamples

\* the pieces a compound value is put together from
ValuePieces ==
  { <<"H", "i", "n", "d", "i">>,
    <<"h", "i", "n", "d", "u", "s", "t", "a", "n", "i">>,
    <<"B", "r", "a", "j">>,
    <<"A", "v", "a", "d", "h", "i">>,
    <<"x">>,
    <<"a", "b">>,
    <<"p", "r", "i", "m", "a", "r", "y">>,
    <<"U+015A", "a", "i", "v", "a", " ", "S", "i", "d", "d", "h", "U+0101", "n", "t", "a">>,
    <<"B", "h", "a", "k", "t", "i", " ", "m", "o", "v", "e", "m", "e", "n", "t">>,
    <<"c", "o", "n", "s", "t", "r", "u", "c", "t", "o", "r">> }

\* what joins two pieces: the separators of the two parsers, the dashes the
\* tradition values are written with (hyphen, en-dash, em-dash), a space,
\* an opening parenthesis
ValueGlues ==
  { <<",", " ">>,
    <<"/">>,
    <<" ", "/", " ">>,
    <<";", " ">>,
    <<" ", "a", "n", "d", " ">>,
    <<" ", "&", " ">>,
    <<" ", "-", " ">>,
    <<"-">>,
    <<" ", "U+2013", " ">>,
    <<" ", "U+2014", " ">>,
    <<" ">>,
    <<" ", "(">> }

ValueTails ==
  { <<>>,
    <<" ", "d", "i", "a", "l", "e", "c", "t", "s", ")">>,
    <<")">>,
    <<" ", "t", "r", "a", "d", "i", "t", "i", "o", "n">> }

\* values written in full: the examples of the parsers' comments and of
\* the documentation, a long parenthetical, a nested dialect list
ValueSamples ==
  { <<"H", "i", "n", "d", "i", " ", "(", "B", "r", "a", "j", ",", " ", "A", "v", "a", "d", "h", "i", " ", "d", "i", "a", "l", "e", "c", "t", "s", ")">>,
    <<"V", "U+012B", "r", "a", "U+015B", "a", "i", "v", "a", " ", "/", " ", "L", "i", "U+1E45", "g", "U+0101", "y", "a", "t">>,
    <<"U+015A", "a", "i", "v", "a", " ", "S", "i", "d", "d", "h", "U+0101", "n", "t", "a", " ", "U+2013", " ", "T", "a", "m", "i", "l", " ", "U+015A", "a", "i", "v", "a", " ", "B", "h", "a", "k", "t", "i">>,
    <<"P", "u", "n", "j", "a", "b", "i", "/", "B", "r", "a", "j", " ", "B", "h", "a", "s", "h", "a">>,
    <<"H", "i", "n", "d", "i", ",", " ", "S", "a", "n", "s", "k", "r", "i", "t">>,
    <<"h", "i", "n", "d", "i">>,
    <<"S", "a", "n", "t", " ", "(", "N", "i", "r", "g", "u", "n", "a", ")">>,
    <<"V", "i", "r", "a", "s", "a", "i", "v", "a", " ", "/", " ", "L", "i", "n", "g", "a", "y", "a", "t">>,
    <<"S", "a", "i", "v", "a", " ", "S", "i", "d", "d", "h", "a", "n", "t", "a", " ", "-", " ", "T", "a", "m", "i", "l", " ", "S", "a", "i", "v", "a", " ", "B", "h", "a", "k", "t", "i">>,
    <<"B", "h", "a", "k", "t", "i", " ", "m", "o", "v", "e", "m", "e", "n", "t", " ", "t", "r", "a", "d", "i", "t", "i", "o", "n">>,
    <<"H", "i", "n", "d", "i", " ", "(", "a", "b", ";", " ", "c", "d", " ", "d", "i", "a", "l", "e", "c", "t", "s", ")">>,
    <<"V", "a", "i", "s", "h", "n", "a", "v", "a", " ", "(", "G", "a", "u", "d", "i", "y", "a", " ", "/", " ", "B", "e", "n", "g", "a", "l", " ", "s", "c", "h", "o", "o", "l", ")">>,
    <<"V", "a", "r", "k", "a", "r", "i", " ", "(", "M", "a", "r", "a", "t", "h", "i", ")">>,
    <<"H", "i", "n", "d", "i", " ", "(", "a", " ", "l", "o", "n", "g", " ", "d", "e", "s", "c", "r", "i", "p", "t", "i", "o", "n", " ", "o", "f", " ", "t", "h", "e", " ", "l", "a", "n", "g", "u", "a", "g", "e", " ", "t", "h", "a", "t", " ", "r", "u", "n", "s", " ", "t", "o", " ", "f", "i", "f", "t", "y", " ", "c", "h", "a", "r", "a", "c", "t", "e", "r", "s", " ", "a", "n", "d", " ", "m", "o", "r", "e", ")">>,
    <<"T", "a", "m", "i", "l", " ", "(", "A", "l", "v", "a", "r", "s", " ", "c", "a", "n", "o", "n", ")">> }

\* values that are not strings: undefined, null, a number
NonStrings == {Undefined, Null, <<"number">>}

RawValues ==
  {p1 \o g \o p2 \o t :
     p1 \in ValuePieces, g \in ValueGlues, p2 \in ValuePieces, t \in ValueTails}
  \cup ValueSamples \cup {<<>>} \cup NonStrings

\* the elements of a sequence
Range(seq) == {seq[i] : i \in 1..Len(seq)}

\* the tokens the parser of a kind returns for the raw values
TokensOf(kind) == UNION {Range(ParseFunction(kind, v)) : v \in RawValues}

\* the rows the extractor is called with
ExtractRows ==
  { <<"H", "i", "n", "d", "i", ",", " ", "S", "a", "n", "s", "k", "r", "i", "t">>,
    <<"h", "i", "n", "d", "i">>,
    <<"T", "a", "m", "i", "l">>,
    <<"t", "a", "m", "i", "l", " ", "n", "a", "d", "u">>,
    <<"U+015A", "a", "i", "v", "a", " ", "/", " ", "S", "a", "i", "v", "a">>,
    <<"B", "e", "n", "g", "a", "l", "i", " ", "(", "B", "a", "n", "g", "l", "a", ")">>,
    <<"a", "b", "-", "c", "d", ",", " ", "a", "b", " ", "c", "d">>,
    <<"c", "o", "n", "s", "t", "r", "u", "c", "t", "o", "r">> }

RECURSIVE SeqsUpTo(_, _)
SeqsUpTo(items, n) ==
  IF n = 0 THEN {<<>>}
  ELSE LET shorter == SeqsUpTo(items, n - 1)
       IN shorter \cup {Append(s, x) : s \in shorter, x \in items}

\* the calls: normalize a token, parse a raw value, parse a token a parser
\* returned (fed back), extract the unique values of some rows
ParseCalls(kinds) ==
  {[fn |-> "normalize", kind |-> k, arg |-> t, fedBack |-> FALSE] :
     k \in kinds, t \in Tokens}
  \cup {[fn |-> "parseCompound", kind |-> k, arg |-> v, fedBack |-> FALSE] :
          k \in kinds, v \in RawValues}
  \cup UNION { {[fn |-> "parseCompound", kind |-> k, arg |-> t, fedBack |-> TRUE] :
                  t \in TokensOf(k)} : k \in kinds }
  \cup {[fn |-> "extractUnique", kind |-> k, arg |-> rows, fedBack |-> FALSE] :
          k \in kinds, rows \in SeqsUpTo(ExtractRows, MaxRawValues)}

InitParse ==
  /\ call \in ParseCalls(Kinds)
  /\ ret = NotReturned
  /\ collection = {}
  /\ req = [route |-> "none", query |-> QueryOf(EmptyObj)]
  /\ filter = EmptyObj
  /\ docsFound = <<>>
  /\ error = "none"
  /\ resStatus = 0
  /\ resBody = <<>>
  /\ lookups = <<>>
  /\ PageIdle

NextParse == NormalizeName \/ ParseValue \/ ExtractUnique

SpecParse == InitParse /\ [][NextParse]_vars

(***************************************************************************)
(* The ingestion of a contribution.  A request body is a record of its     *)
(* fields, a field the body lacks being undefined; a text field holds a    *)
(* string, or <<"number">> for a value that is not a string.  body.places  *)
(* is undefined, a string, an array or an object of entries; the data of   *)
(* an entry is undefined, null, a string, a place object or an array of    *)
(* those.  A place object's coords are null (or absent) or an array.       *)
(***************************************************************************)
TypeDeath == <<"d", "e", "a", "t", "h">>
TypeSamadhi == <<"s", "a", "m", "a", "d", "h", "i">>

JsUndefined == [kind |-> "undefined"]

JsString(value) == [kind |-> "string", value |-> value]

\* { name, coords, region }
PlaceObj(name, coords, region) ==
  [kind |-> "object", name |-> name, coords |-> coords, region |-> region]

\* const requiredFields = [...]
RequiredFields ==
  <<"saint", "tradition", "period", "startYear", "endYear", "traditionType",
    "gender", "language", "philosophy", "birthPlace">>

\* mutant of FieldMissing: a string of white space passes
FieldMissingUntrimmed(body, field) ==
  \/ ~Truthy(body[field])
  \/ ~IsString(body[field])

\* if (!body[field] || typeof body[field] !== 'string' || !body[field].trim())
FieldMissing(body, field) ==
  \/ ~Truthy(body[field])
  \/ ~IsString(body[field])
  \/ ~Truthy(Trim(body[field]))

\* if (!body.places || typeof body.places !== 'object'): an array is an
\* object, a string is not
PlacesMissing(body) == body.places.kind \notin {"object", "array"}

\* validateContributionBody(body): the fields an error is pushed for, in the
\* order of requiredFields, then places
ValidateContributionBody(body) ==
  SelectSeq(RequiredFields, LAMBDA field : FieldMissing(body, field))
  \o (IF PlacesMissing(body) THEN << "places" >> ELSE <<>>)

(***************************************************************************)
(* geocodePlace.  What the geocoding service did with one lookup: the      *)
(* fetch threw, the response was not ok, its JSON was not an array, was an *)
(* empty array, or its first element is a place with lat, lon and          *)
(* display_name.  The service's lat and lon are strings of digits.         *)
(***************************************************************************)
GeoAnswer(outcome, lat, lon, display_name) ==
  [outcome |-> outcome, lat |-> lat, lon |-> lon,
   display_name |-> display_name]

\* the lookup was started and has not completed
InFlight == GeoAnswer("inFlight", <<>>, <<>>, <<>>)

\* parseFloat on a string of digits
ParseFloat(s) == ParseInt(s).val

\* const displayName = place.display_name || placeName;
DisplayName(place, placeName) ==
  IF Truthy(place.display_name) THEN place.display_name ELSE placeName

\* region: parts.length > 1 ? parts[1].trim() : ''
RegionOf(parts) == IF Len(parts) > 1 THEN Trim(parts[2]) ELSE <<>>

\* what geocodePlace returns for the place data[0]
GeoData(place, displayName) ==
  [found |-> TRUE,
   lat |-> ParseFloat(place.lat),
   lon |-> ParseFloat(place.lon),
   displayName |-> displayName,
   region |-> RegionOf(Split("comma", displayName))]

\* geocodePlace(placeName), the service answering with answer: null unless
\* the answer holds a place
GeocodePlace(placeName, answer) ==
  IF answer.outcome = "found"
  THEN GeoData(answer, DisplayName(answer, placeName))
  ELSE [found |-> FALSE]

(***************************************************************************)
(* normalizeAndGeocodePlaces.  The lookups of one call are made one after  *)
(* the other; answers holds what the service did with each, in order.      *)
(***************************************************************************)
\* const placeTypes = ['birth', 'samadhi'];
PlaceTypes == <<TypeBirth, TypeSamadhi>>

\* places[type]
PlaceData(places, type) ==
  IF places.kind = "object"
     /\ \E i \in 1..Len(places.entries) : places.entries[i].type = type
  THEN LET i == CHOOSE j \in 1..Len(places.entries) :
                  places.entries[j].type = type
       IN places.entries[i].data
  ELSE JsUndefined

\* if (!placeData)
Falsy(data) ==
  \/ data.kind \in {"undefined", "null"}
  \/ data.kind = "string" /\ data.value = <<>>

\* if (!placeObj || !placeObj.name) return null;
Nameless(placeObj) ==
  \/ Falsy(placeObj)
  \/ placeObj.kind # "object"
  \/ ~Truthy(placeObj.name)

\* mutant of CoordsGiven: the coordinates submitted are not looked at, and
\* every named place is geocoded
CoordsGivenNever(placeObj) ==
  placeObj.coords.kind = "array" /\ Len(placeObj.coords.items) < 0

\* Array.isArray(placeObj.coords) && placeObj.coords.length === 2
CoordsGiven(placeObj) ==
  placeObj.coords.kind = "array" /\ Len(placeObj.coords.items) = 2

\* processPlace calls geocodePlace for placeObj
NeedsLookup(placeObj) == ~Nameless(placeObj) /\ ~CoordsGiven(placeObj)

\* let region = placeObj.region || null;
RegionGiven(placeObj) ==
  IF placeObj.region # Null /\ Truthy(placeObj.region) THEN placeObj.region ELSE Null

\* mutant of GeocodedPlace: a place whose lookup failed gets the coordinates
\* [0, 0]
GeocodedPlaceDefaultCoords(placeObj, geoData) ==
  PlaceObj(placeObj.name,
           IF geoData.found THEN JsArray(<<geoData.lat, geoData.lon>>)
           ELSE JsArray(<<0, 0>>),
           IF placeObj.region # Null /\ Truthy(placeObj.region) THEN placeObj.region
           ELSE IF geoData.found THEN geoData.region
           ELSE Null)

\* what processPlace returns for a place it looked up, geoData being what
\* geocodePlace returned:
\*   coords = geoData ? [geoData.lat, geoData.lon] : null;
\*   region = region || (geoData ? geoData.region : null);
GeocodedPlace(placeObj, geoData) ==
  PlaceObj(placeObj.name,
           IF geoData.found THEN JsArray(<<geoData.lat, geoData.lon>>)
           ELSE JsNull,
           IF placeObj.region # Null /\ Truthy(placeObj.region) THEN placeObj.region
           ELSE IF geoData.found THEN geoData.region
           ELSE Null)

\* processPlace(placeObj), the service answering its lookup with answer
ProcessPlace(placeObj, answer) ==
  IF Nameless(placeObj) THEN JsNull
  ELSE IF CoordsGiven(placeObj)
  THEN PlaceObj(placeObj.name, placeObj.coords, RegionGiven(placeObj))
  ELSE GeocodedPlace(placeObj, GeocodePlace(placeObj.name, answer))

\* the place objects processPlace is called with for one entry
PlaceObjs(placeData) ==
  IF Falsy(placeData) THEN <<>>
  ELSE IF placeData.kind = "array" THEN placeData.items
  ELSE <<placeData>>

\* the names geocodePlace is called with for a list of place objects
NamesLookedUp(placeObjs) ==
  LET needing == SelectSeq(placeObjs, NeedsLookup)
  IN [i \in 1..Len(needing) |-> needing[i].name]

\* if (processed) processedPlaces.push(processed);
Pushed(processed, rest) ==
  IF processed.kind # "null" THEN <<processed>> \o rest ELSE rest

\* how many lookups processPlace makes for placeObj
LookupCount(placeObj) == IF NeedsLookup(placeObj) THEN 1 ELSE 0

\* for (const place of placeData): the places pushed to processedPlaces
RECURSIVE ProcessedPlaces(_, _)
ProcessedPlaces(placeObjs, answers) ==
  IF placeObjs = <<>> THEN <<>>
  ELSE Pushed(ProcessPlace(Head(placeObjs), Head(answers \o <<InFlight>>)),
              ProcessedPlaces(Tail(placeObjs),
                              SubSeq(answers, LookupCount(Head(placeObjs)) + 1,
                                     Len(answers))))

\* processedPlaces.length ? processedPlaces : null
ArrayOrNull(processedPlaces) ==
  IF Len(processedPlaces) > 0 THEN JsArray(processedPlaces) ELSE JsNull

\* geocodedPlaces[type]
GeocodedEntry(placeData, answers) ==
  IF Falsy(placeData) THEN JsNull
  ELSE IF placeData.kind = "array"
  THEN ArrayOrNull(ProcessedPlaces(placeData.items, answers))
  ELSE ProcessPlace(placeData, Head(answers \o <<InFlight>>))

\* how many lookups normalizeAndGeocodePlaces makes for places[type]
LookupsOf(places, type) == Len(NamesLookedUp(PlaceObjs(PlaceData(places, type))))

\* for (const type of placeTypes): the entries of geocodedPlaces
RECURSIVE GeocodedEntries(_, _, _)
GeocodedEntries(places, types, answers) ==
  IF types = <<>> THEN <<>>
  ELSE << [type |-> Head(types),
           data |-> GeocodedEntry(PlaceData(places, Head(types)), answers)] >>
       \o GeocodedEntries(places, Tail(types),
                          SubSeq(answers, LookupsOf(places, Head(types)) + 1,
                                 Len(answers)))

\* the names geocodePlace is called with during normalizeAndGeocodePlaces
RECURSIVE AllNamesLookedUp(_, _)
AllNamesLookedUp(places, types) ==
  IF types = <<>> THEN <<>>
  ELSE NamesLookedUp(PlaceObjs(PlaceData(places, Head(types))))
       \o AllNamesLookedUp(places, Tail(types))

\* normalizeAndGeocodePlaces(places)
NormalizeAndGeocodePlaces(places, answers) ==
  [kind |-> "object", entries |-> GeocodedEntries(places, PlaceTypes, answers)]

(***************************************************************************)
(* POST /api/contribute.  The handler runs up to its first lookup, and     *)
(* goes on each time a lookup completes; lookups holds the lookups it has  *)
(* started, the last of them in flight until the service answers.          *)
(***************************************************************************)
\* body.school ? body.school.trim() : null
TrimOrNull(v) == IF Truthy(v) THEN Trim(v) ELSE Null

\* the fields trimmed when they are truthy
OptionalFields == {"school", "presidingDeity", "deathPlace"}

\* .trim() of a truthy value that is not a string throws a TypeError
TrimThrows(body) ==
  \E field \in OptionalFields : Truthy(body[field]) /\ ~IsString(body[field])

\* the _id insertOne gives the document: one the collection does not hold,
\* above those it holds
InsertedId(coll) ==
  IF coll = {} THEN 1
  ELSE 1 + (CHOOSE n \in {doc._id : doc \in coll} :
              \A doc \in coll : doc._id <= n)

\* traditionDocument, with the _id insertOne gives it; the bodies of the
\* model carry texts as one string or not at all; contributedAt and
\* updatedAt are not carried
TraditionDocument(body, geocodedPlaces, id) ==
  [_id |-> id,
   saint |-> Trim(body.saint),
   tradition |-> Trim(body.tradition),
   places |-> geocodedPlaces,
   period |-> Trim(body.period),
   startYear |-> Trim(body.startYear),
   endYear |-> Trim(body.endYear),
   traditionType |-> Trim(body.traditionType),
   school |-> TrimOrNull(body.school),
   presidingDeity |-> TrimOrNull(body.presidingDeity),
   sufi |-> Truthy(body.sufi),
   birthPlace |-> Trim(body.birthPlace),
   deathPlace |-> TrimOrNull(body.deathPlace),
   gender |-> Trim(body.gender),
   language |-> Trim(body.language),
   texts |-> IF Truthy(body.texts) THEN <<body.texts>> ELSE <<>>,
   philosophy |-> Trim(body.philosophy)]

\* mutant of InsertOne: the document replaces what the collection held
InsertOneReplacing(traditionDocument) ==
  /\ collection' = {traditionDocument}
  /\ resBody' = [id |-> traditionDocument._id,
                 message |-> traditionDocument.saint,
                 success |-> TRUE]
  /\ resStatus' = 200
  /\ UNCHANGED error

\* await traditionsCollection.insertOne(traditionDocument); res.json(...)
InsertOne(traditionDocument) ==
  /\ collection' = collection \cup {traditionDocument}
  /\ resBody' = [id |-> traditionDocument._id,
                 message |-> traditionDocument.saint,
                 success |-> TRUE]
  /\ resStatus' = 200
  /\ UNCHANGED error

\* the handler from the return of normalizeAndGeocodePlaces on: the document
\* is built and inserted and the request answered; an error thrown on the
\* way reaches the error middleware
InsertAndAnswer(body, answers) ==
  IF TrimThrows(body)
  THEN /\ error' = "TypeError"
       /\ resStatus' = 500
       /\ UNCHANGED <<collection, resBody>>
  ELSE InsertOne(TraditionDocument(body,
                                   NormalizeAndGeocodePlaces(body.places,
                                                             answers),
                                   InsertedId(collection)))

\* return res.status(400).json({ error: 'Validation failed', details: ... })
AnswerInvalid(validationErrors) ==
  /\ resStatus' = 400
  /\ resBody' = [error |-> "Validation failed", details |-> validationErrors]
  /\ UNCHANGED <<collection, error, lookups>>

\* mutant of LookupOrInsert: the lookups left are all started together, as
\* with Promise.all over the places
LookupOrInsertTogether(body, names, completed) ==
  IF Len(completed) < Len(names)
  THEN /\ lookups' = completed \o
                       [i \in 1..(Len(names) - Len(completed)) |->
                          [placeName |-> names[Len(completed) + i],
                           answer |-> InFlight]]
       /\ UNCHANGED <<collection, error, resStatus, resBody>>
  ELSE /\ lookups' = completed
       /\ InsertAndAnswer(body, [i \in 1..Len(completed) |-> completed[i].answer])

\* the handler goes on with the lookup of the next name, if one is left,
\* and runs to its end otherwise; completed holds the lookups made
LookupOrInsert(body, names, completed) ==
  IF Len(completed) < Len(names)
  THEN /\ lookups' = Append(completed,
                            [placeName |-> names[Len(completed) + 1],
                             answer |-> InFlight])
       /\ UNCHANGED <<collection, error, resStatus, resBody>>
  ELSE /\ lookups' = completed
       /\ InsertAndAnswer(body, [i \in 1..Len(completed) |-> completed[i].answer])

\* the handler after validateContributionBody returned validationErrors
Validated(body, validationErrors) ==
  IF Len(validationErrors) > 0
  THEN AnswerInvalid(validationErrors)
  ELSE LookupOrInsert(body, AllNamesLookedUp(body.places, PlaceTypes), <<>>)

\* app.post('/api/contribute', ...) up to the first await of a lookup: the
\* body is validated (400 with the errors), and the first lookup is started;
\* without place to look up the handler runs to its end
PostContribute ==
  /\ req.route = "/api/contribute"
  /\ resStatus = 0
  /\ lookups = <<>>
  /\ Validated(req.body, ValidateContributionBody(req.body))
  /\ UNCHANGED <<req, filter, docsFound, call, ret>>
  /\ UNCHANGED <<pageVars, suggestVars>>

\* what the geocoding service does with a lookup
GeoAnswers ==
  { GeoAnswer("threw", <<>>, <<>>, <<>>),
    GeoAnswer("notOk", <<>>, <<>>, <<>>),
    GeoAnswer("notArray", <<>>, <<>>, <<>>),
    GeoAnswer("empty", <<>>, <<>>, <<>>),
    GeoAnswer("found", <<"1", "8">>, <<"7", "5">>,
              <<"P", "u", "n", "e", ",", " ", "M", "H", ",", " ", "I", "N">>) }

\* the lookup in flight completes, and the handler goes on from its await:
\* up to the next lookup if a place is left to look up, to its end otherwise
GeocodeReturns ==
  /\ req.route = "/api/contribute"
  /\ resStatus = 0
  /\ lookups # <<>>
  /\ lookups[Len(lookups)].answer = InFlight
  /\ \E answer \in GeoAnswers :
       LookupOrInsert(req.body, AllNamesLookedUp(req.body.places, PlaceTypes),
                      [lookups EXCEPT ![Len(lookups)].answer = answer])
  /\ UNCHANGED <<req, filter, docsFound, call, ret>>
  /\ UNCHANGED <<pageVars, suggestVars>>

(***************************************************************************)
(* The other routes.                                                       *)
(***************************************************************************)
\* app.get('/api/health', ...); the timestamp is not carried
GetHealth ==
  /\ req.route = "/api/health"
  /\ resStatus = 0
  /\ resBody' = [status |-> "healthy", database |-> "connected",
                 version |-> "1.0.1"]
  /\ resStatus' = 200
  /\ UNCHANGED <<collection, req, filter, docsFound, error, call, ret, lookups>>
  /\ UNCHANGED <<pageVars, suggestVars>>

\* data.map(place => ...): the suggestion of a place of the service's answer;
\* type and importance are not carried
Suggestion(answer) ==
  [name |-> Trim(Split("comma", answer.display_name)[1]),
   fullName |-> answer.display_name,
   coords |-> <<ParseFloat(answer.lat), ParseFloat(answer.lon)>>]

\* app.get('/api/suggest-places/:query', ...): a query shorter than 3
\* characters is answered with [] without a lookup; a fetch that throws and
\* an answer that is no array reach the error middleware
GetSuggestPlaces ==
  /\ req.route = "/api/suggest-places"
  /\ resStatus = 0
  /\ LET query == Trim(IF Truthy(req.params) THEN req.params ELSE <<>>)
     IN IF Len(query) < 3
        THEN /\ resBody' = <<>>
             /\ resStatus' = 200
             /\ UNCHANGED error
        ELSE \E answer \in GeoAnswers :
               CASE answer.outcome = "threw" ->
                      /\ error' = "FetchError"
                      /\ resStatus' = 500
                      /\ UNCHANGED resBody
                 [] answer.outcome = "notArray" ->
                      /\ error' = "TypeError"
                      /\ resStatus' = 500
                      /\ UNCHANGED resBody
                 [] answer.outcome = "found" ->
                      /\ resBody' = <<Suggestion(answer)>>
                      /\ resStatus' = 200
                      /\ UNCHANGED error
                 [] OTHER ->
                      /\ resBody' = <<>>
                      /\ resStatus' = 200
                      /\ UNCHANGED error
  /\ UNCHANGED <<collection, req, filter, docsFound, call, ret, lookups>>
  /\ UNCHANGED <<pageVars, suggestVars>>

\* { $addToSet: '$field' } over the documents taken in the order docs: the
\* distinct values of the field
AddToSet(docs, field) ==
  LET Added(results, doc) == SetAdd(results, doc[field])
      RECURSIVE AllAdded(_, _)
      AllAdded(results, rest) ==
        IF rest = <<>> THEN results
        ELSE AllAdded(Added(results, Head(rest)), Tail(rest))
  IN AllAdded(<<>>, docs)

\* sort({_id: 1}) of what sort({_id: -1}) gives
Reversed(docs) == [i \in 1..Len(docs) |-> docs[Len(docs) + 1 - i]]

\* options[key].filter(Boolean).sort((a, b) => a.localeCompare(b))
FilterSort(values) == SortLocale(SelectSeq(values, Truthy))

\* app.get('/api/filter-options', ...): the distinct raw values of the
\* collection, the simple fields sorted, language and tradition parsed.  The
\* order $addToSet lists the values in is not specified: the documents are
\* taken in either order of their ids
GetFilterOptions ==
  /\ req.route = "/api/filter-options"
  /\ resStatus = 0
  /\ IF collection = {}
     THEN /\ resBody' = [traditions |-> <<>>, traditionTypes |-> <<>>,
                         genders |-> <<>>, languages |-> <<>>,
                         periods |-> <<>>, saints |-> <<>>]
          /\ resStatus' = 200
     ELSE \E docs \in {SortByIdDesc(collection),
                       Reversed(SortByIdDesc(collection))} :
            /\ resBody' =
                 [traditions |->
                    ExtractUniqueValues(
                      SelectSeq(AddToSet(docs, "tradition"), Truthy),
                      "tradition"),
                  traditionTypes |-> FilterSort(AddToSet(docs, "traditionType")),
                  genders |-> FilterSort(AddToSet(docs, "gender")),
                  languages |->
                    ExtractUniqueValues(
                      SelectSeq(AddToSet(docs, "language"), Truthy),
                      "language"),
                  periods |-> FilterSort(AddToSet(docs, "period")),
                  saints |-> FilterSort(AddToSet(docs, "saint"))]
            /\ resStatus' = 200
  /\ UNCHANGED <<collection, req, filter, docsFound, error, call, ret, lookups>>
  /\ UNCHANGED <<pageVars, suggestVars>>

\* the routes of the API
ApiRoutes ==
  {"/api/health", "/api/suggest-places", "/api/filter-options",
   "/api/traditions", "/api/contribute", "/api/places"}

\* app.use('*', ...): a path under /api/ that no route matches
RouteNotFound ==
  /\ req.route \notin ApiRoutes
  /\ resStatus = 0
  /\ resStatus' = 404
  /\ resBody' = [error |-> "Route not found", path |-> req.route]
  /\ UNCHANGED <<collection, req, filter, docsFound, error, call, ret, lookups>>
  /\ UNCHANGED <<pageVars, suggestVars>>

(***************************************************************************)
(* The contributions the ingestion is checked on.                          *)
(***************************************************************************)
\* JSON true
JsTrue == <<"true">>

\* a body that passes validation, with the given places and school
Body(places, school) ==
  [saint |-> <<" ", "T", "u", "k", "a", "r", "a", "m">>,
   tradition |-> <<"V", "a", "r", "k", "a", "r", "i">>,
   period |-> <<"1", "7", "t", "h", " ", "c", ".">>,
   startYear |-> <<"1", "6", "0", "8">>,
   endYear |-> <<"1", "6", "5", "0">>,
   traditionType |-> <<"B", "h", "a", "k", "t", "i">>,
   gender |-> <<"M", "a", "l", "e">>,
   language |-> <<"M", "a", "r", "a", "t", "h", "i">>,
   philosophy |-> <<"B", "h", "a", "k", "t", "i">>,
   birthPlace |-> <<"D", "e", "h", "u">>,
   school |-> school,
   presidingDeity |-> <<"V", "i", "t", "h", "o", "b", "a", " ">>,
   sufi |-> JsTrue,
   deathPlace |-> Undefined,
   texts |-> <<"G", "a", "t", "h", "a">>,
   places |-> places]

\* {} : req.body || {}
EmptyBody ==
  [field \in {RequiredFields[i] : i \in 1..Len(RequiredFields)}
             \cup OptionalFields \cup {"sufi", "texts"} |-> Undefined]
  @@ [places |-> JsUndefined]

\* what a place of a contribution is: null, a string, a place object
\* without coords (with a region or without), with two coordinates and a
\* region, with three coordinates, without name
PlaceKinds ==
  {"null", "string", "nocoords", "region", "pair", "triple", "nameless"}

\* the place of a kind with the given name
PlaceOf(kind, name) ==
  CASE kind = "null" -> JsNull
    [] kind = "string" -> JsString(name)
    [] kind = "nocoords" -> PlaceObj(name, JsNull, Undefined)
    [] kind = "region" -> PlaceObj(name, JsNull, <<"G", "J">>)
    [] kind = "pair" -> PlaceObj(name, JsArray(<<1, 2>>), <<"G", "J">>)
    [] kind = "triple" -> PlaceObj(name, JsArray(<<1, 2, 3>>), Undefined)
    [] kind = "nameless" -> PlaceObj(Undefined, JsArray(<<1, 2>>), Undefined)

\* the places of an array of a contribution
ArrayKinds == {"null", "nocoords", "pair", "nameless"}

\* the i-th name of an entry whose names start with letter
NameOf(letter, i) == <<letter, CHOOSE d \in Digits : DigitVal(d) = i>>

\* the values of one entry of the places of a contribution: absent, one
\* place of each kind, an array of up to maxLen places
PlaceDataValues(letter, maxLen) ==
  {JsUndefined}
  \cup {PlaceOf(kind, NameOf(letter, 0)) : kind \in PlaceKinds}
  \cup UNION { {JsArray([i \in 1..n |-> PlaceOf(kinds[i], NameOf(letter, i))]) :
                  kinds \in [1..n -> ArrayKinds]} : n \in 0..maxLen }

\* the places objects: a birth and a samadhi entry, and a temple entry in
\* one of them
PlacesValues ==
  {[kind |-> "object",
    entries |-> << [type |-> TypeBirth, data |-> b],
                   [type |-> TypeSamadhi, data |-> s] >>] :
     b \in PlaceDataValues("B", 1), s \in PlaceDataValues("S", MaxArrayLen)}
  \cup {[kind |-> "object",
         entries |-> << [type |-> TypeTemple,
                         data |-> PlaceOf("nocoords", NameOf("T", 0))],
                        [type |-> TypeBirth,
                         data |-> PlaceOf("nocoords", NameOf("B", 0))] >>],
        JsArray(<<PlaceOf("nocoords", NameOf("B", 0))>>)}

\* a places object with a birth place that has a name and no coords
BirthNamed ==
  [kind |-> "object",
   entries |-> << [type |-> TypeBirth,
                   data |-> PlaceOf("nocoords", NameOf("B", 0))] >>]

\* processPlaceInput(input) of the page
ProcessPlaceInput(input) ==
  IF ~Truthy(input) \/ Trim(input) = <<>> THEN JsNull
  ELSE PlaceObj(Trim(input), JsNull, Null)

\* the places handleContributionSubmit posts, birthPlace and deathPlace
\* being the values of the form
FormPlaces(birthPlace, deathPlace) ==
  [kind |-> "object",
   entries |-> << [type |-> TypeBirth, data |-> ProcessPlaceInput(birthPlace)],
                  [type |-> TypeDeath, data |-> ProcessPlaceInput(deathPlace)] >>]

\* the bodies: those that pass validation, with every places object, one
\* of them with a school that is no string, and one as the form of the page
\* posts it; and those that do not pass
ContributionBodies ==
  {Body(places, Undefined) : places \in PlacesValues}
  \cup {Body(FormPlaces(<<"D", "e", "h", "u", " ">>, <<"P", "u", "n", "e">>),
             Undefined),
        Body(BirthNamed, <<"number">>),
        EmptyBody,
        [Body(BirthNamed, Undefined) EXCEPT !.saint = <<" ">>],
        [Body(BirthNamed, Undefined) EXCEPT !.startYear = <<"number">>],
        Body(JsUndefined, Undefined),
        Body(JsString(<<"D", "e", "h", "u">>), Undefined)}

\* a request: its route, req.query, req.params.query and req.body
Request(route, query, params, body) ==
  [route |-> route, query |-> query, params |-> params, body |-> body]

\* the collection a contribution finds: empty, or holding one document
ContributeSeeds == {{}, {doc \in FilterDocs : doc._id = 1}}

InitContribute ==
  /\ collection \in ContributeSeeds
  /\ req \in {Request("/api/contribute", QueryOf(EmptyObj), Undefined, body) :
                body \in ContributionBodies}
  /\ filter = EmptyObj
  /\ docsFound = <<>>
  /\ error = "none"
  /\ resStatus = 0
  /\ resBody = <<>>
  /\ call = NoCall
  /\ ret = NotReturned
  /\ lookups = <<>>
  /\ PageIdle

NextContribute == PostContribute \/ GeocodeReturns

SpecContribute == InitContribute /\ [][NextContribute]_vars

(***************************************************************************)
(* Sequences of requests.  The server handles the request in hand to its   *)
(* response and then takes the next one.                                   *)
(***************************************************************************)
\* most documents the collection holds before contributions are refused
\* by the model
MaxDocs == 2

\* the requests: every route, a path no route matches, contributions that
\* are stored, rejected by validation, and that make the handler throw, a
\* contribution whose startYear is no number, and year ranges
ApiRequests ==
  { Request("/api/health", QueryOf(EmptyObj), Undefined, EmptyBody),
    Request("/api/suggest-places", QueryOf(EmptyObj), <<"P", "u">>, EmptyBody),
    Request("/api/suggest-places", QueryOf(EmptyObj),
            <<"P", "u", "n", "e">>, EmptyBody),
    Request("/api/filter-options", QueryOf(EmptyObj), Undefined, EmptyBody),
    Request("/api/traditions", QueryOf(EmptyObj), Undefined, EmptyBody),
    Request("/api/traditions",
            QueryOf("language" :> <<"m", "a", "r", "a", "t", "h", "i">>),
            Undefined, EmptyBody),
    Request("/api/places", QueryOf(EmptyObj), Undefined, EmptyBody),
    Request("/api/traditions/1", QueryOf(EmptyObj), Undefined, EmptyBody),
    Request("/api/contribute", QueryOf(EmptyObj), Undefined,
            Body(BirthNamed, Undefined)),
    Request("/api/contribute", QueryOf(EmptyObj), Undefined,
            Body(BirthNamed, <<"number">>)),
    Request("/api/contribute", QueryOf(EmptyObj), Undefined, EmptyBody),
    Request("/api/contribute", QueryOf(EmptyObj), Undefined,
            [Body(BirthNamed, Undefined) EXCEPT
               !.startYear = <<"1", "6", "0", "8", " ", "C", "E">>]),
    Request("/api/traditions",
            QueryOf("startYearMin" :> <<"1", "5", "0", "0">>),
            Undefined, EmptyBody),
    Request("/api/traditions",
            QueryOf("startYearMax" :> <<"1", "7", "0", "0">>),
            Undefined, EmptyBody) }

\* the request r can be taken: a contribution only while the collection
\* holds fewer than MaxDocs documents
Admitted(r, coll) ==
  r.route = "/api/contribute" => Cardinality(coll) < MaxDocs

\* the request in hand was answered; the next request arrives
NextRequest ==
  /\ resStatus # 0
  /\ \E r \in ApiRequests :
       /\ Admitted(r, collection)
       /\ req' = r
  /\ filter' = EmptyObj
  /\ docsFound' = <<>>
  /\ error' = "none"
  /\ resStatus' = 0
  /\ resBody' = <<>>
  /\ lookups' = <<>>
  /\ UNCHANGED <<collection, call, ret>>
  /\ UNCHANGED <<pageVars, suggestVars>>

InitApi ==
  /\ collection \in ContributeSeeds
  /\ req \in ApiRequests
  /\ filter = EmptyObj
  /\ docsFound = <<>>
  /\ error = "none"
  /\ resStatus = 0
  /\ resBody = <<>>
  /\ call = NoCall
  /\ ret = NotReturned
  /\ lookups = <<>>
  /\ PageIdle

NextApi ==
  \/ GetHealth
  \/ GetSuggestPlaces
  \/ GetFilterOptions
  \/ GetTraditions
  \/ PostContribute
  \/ GeocodeReturns
  \/ GetPlaces
  \/ RouteNotFound
  \/ NextRequest

SpecApi == InitApi /\ [][NextApi]_vars

(***************************************************************************)
(* The page, src/frontend/index.js.  fetches holds the requests the page   *)
(* made, in the order it made them, each with the function that awaits it; *)
(* the response of a request arrives at any time after the request was     *)
(* made, whatever the order of the requests.  The server answers from the  *)
(* collection, which the page specifications hold fixed; the form data of  *)
(* a contribution, filterOptions and the dropdowns it fills, the toasts    *)
(* and the statistics are not carried.                                     *)
(***************************************************************************)
\* the requests the page has made when the model lets its user start no
\* further one
MaxFetches == 4

\* a request the page made: the function awaiting it, the parameters of
\* its URL, and whether it is in flight, was answered, or failed (a
\* rejected fetch or a response that is not ok)
Fetch(fn, params) == [fn |-> fn, params |-> params, state |-> "inFlight"]

\* the requests in flight that fn awaits
Awaited(fn) ==
  {i \in 1..Len(fetches) : fetches[i].fn = fn /\ fetches[i].state = "inFlight"}

\* fetches after request i settled with the outcome
Settled(i, outcome) == [fetches EXCEPT ![i].state = outcome]

\* what a request settles with
Outcomes == {"ok", "failed"}

\* the markers GET /api/traditions answers with for docs, the suffixes of
\* the marker ids all drawn alike
MarkersAnswered(docs, placeType) ==
  FilterPlaceType(FlatMapMarkers(docs, [i \in 1..CountMarkers(docs) |-> 1]),
                  placeType)

\* response.json() of GET /api/traditions?params
TraditionsJson(params) ==
  MarkersAnswered(Find(collection, BuildFilter(QueryOf(params)).filter),
                  QueryOf(params).placeType)

\* createMarker(tradition) returns a marker
CreateMarker(tradition) == Len(tradition.coords) = 2

\* updateMapMarkers(): the layers of clusterGroup after clearLayers() and
\* one addLayer for each tradition createMarker returns a marker for
UpdateMapMarkers(traditions) == SelectSeq(traditions, CreateMarker)

\* Object.entries(currentFilters).forEach(... if (value) params.append(...))
Params(filters) ==
  [key \in {k \in DOMAIN filters : Truthy(filters[k])} |-> filters[key]]

\* the texts typed into #search-input
SearchTexts ==
  { <<>>, <<"L", "i", "n", "g", "a", "y", "a", "t">> }

\* document.addEventListener('DOMContentLoaded', ...): initializeUI hides
\* the overlay, then loadFilterOptions and loadInitialData each show it and
\* make their request
DomContentLoaded ==
  /\ fetches = <<>>
  /\ overlayHidden' = FALSE
  /\ fetches' = << Fetch("loadFilterOptions", EmptyObj),
                   Fetch("loadInitialData", EmptyObj) >>
  /\ UNCHANGED <<searchInput, searchTimeout, currentFilters, allTraditions,
                 filteredTraditions, clusterGroup>>
  /\ UNCHANGED <<serverVars, suggestVars>>

\* loadFilterOptions after its await: the options are stored and the
\* dropdowns filled, or the failure is shown in a toast
LoadFilterOptionsSettles ==
  /\ \E i \in Awaited("loadFilterOptions") : \E outcome \in Outcomes :
       fetches' = Settled(i, outcome)
  /\ UNCHANGED <<searchInput, searchTimeout, currentFilters, allTraditions,
                 filteredTraditions, clusterGroup, overlayHidden>>
  /\ UNCHANGED <<serverVars, suggestVars>>

\* mutant of InitialDataFailed: the catch block does not hide the overlay
InitialDataFailedOverlayLeft ==
  UNCHANGED <<allTraditions, filteredTraditions, clusterGroup, overlayHidden>>

\* loadInitialData, catch (error): hideLoadingOverlay()
InitialDataFailed ==
  /\ overlayHidden' = TRUE
  /\ UNCHANGED <<allTraditions, filteredTraditions, clusterGroup>>

\* loadInitialData after its await, the response being traditions
InitialDataLoaded(traditions) ==
  /\ allTraditions' = traditions
  /\ filteredTraditions' = traditions
  /\ clusterGroup' = UpdateMapMarkers(traditions)
  /\ overlayHidden' = TRUE

\* loadInitialData after its await
LoadInitialDataSettles ==
  /\ \E i \in Awaited("loadInitialData") :
       \/ /\ fetches' = Settled(i, "failed")
          /\ InitialDataFailed
       \/ /\ fetches' = Settled(i, "ok")
          /\ InitialDataLoaded(TraditionsJson(fetches[i].params))
  /\ UNCHANGED <<searchInput, searchTimeout, currentFilters>>
  /\ UNCHANGED <<serverVars, suggestVars>>

\* applyCurrentFilters() up to its await: the overlay is shown and the
\* request made with the filters that hold a value
ApplyCurrentFilters(filters) ==
  /\ overlayHidden' = FALSE
  /\ fetches' = Append(fetches, Fetch("applyCurrentFilters", Params(filters)))

\* updateCurrentFilters(): the inputs that are not '', #search-input being
\* the one input of the panel that is given a value
UpdateCurrentFilters(search) ==
  IF search # <<>> THEN "search" :> search ELSE EmptyObj

\* the input listener of #search-input: the timer is cleared and set anew
SearchInputs ==
  /\ fetches # <<>>
  /\ \E value \in SearchTexts :
       /\ value # searchInput
       /\ searchInput' = value
  /\ searchTimeout' = [pending |-> TRUE]
  /\ UNCHANGED <<currentFilters, allTraditions, filteredTraditions,
                 clusterGroup, overlayHidden, fetches>>
  /\ UNCHANGED <<serverVars, suggestVars>>

\* the timer of #search-input fires:
\*   currentFilters.search = e.target.value; applyCurrentFilters();
SearchTimeoutFires ==
  /\ searchTimeout.pending
  /\ Len(fetches) < MaxFetches
  /\ searchTimeout' = NoTimeout
  /\ currentFilters' = ("search" :> searchInput) @@ currentFilters
  /\ ApplyCurrentFilters(("search" :> searchInput) @@ currentFilters)
  /\ UNCHANGED <<searchInput, allTraditions, filteredTraditions, clusterGroup>>
  /\ UNCHANGED <<serverVars, suggestVars>>

\* the click listener of #apply-filters:
\*   updateCurrentFilters(); applyCurrentFilters();
ApplyFiltersClicked ==
  /\ fetches # <<>>
  /\ Len(fetches) < MaxFetches
  /\ currentFilters' = UpdateCurrentFilters(searchInput)
  /\ ApplyCurrentFilters(UpdateCurrentFilters(searchInput))
  /\ UNCHANGED <<searchInput, searchTimeout, allTraditions,
                 filteredTraditions, clusterGroup>>
  /\ UNCHANGED <<serverVars, suggestVars>>

\* applyCurrentFilters after its await, the response being traditions
FiltersApplied(traditions) ==
  /\ filteredTraditions' = traditions
  /\ clusterGroup' = UpdateMapMarkers(traditions)
  /\ overlayHidden' = TRUE

\* applyCurrentFilters after its await; the catch block hides the overlay
ApplyCurrentFiltersSettles ==
  /\ \E i \in Awaited("applyCurrentFilters") :
       \/ /\ fetches' = Settled(i, "failed")
          /\ overlayHidden' = TRUE
          /\ UNCHANGED <<filteredTraditions, clusterGroup>>
       \/ /\ fetches' = Settled(i, "ok")
          /\ FiltersApplied(TraditionsJson(fetches[i].params))
  /\ UNCHANGED <<searchInput, searchTimeout, currentFilters, allTraditions>>
  /\ UNCHANGED <<serverVars, suggestVars>>

\* handleContributionSubmit up to its await: the overlay is shown and the
\* contribution posted
ContributionSubmitted ==
  /\ fetches # <<>>
  /\ Len(fetches) + 1 < MaxFetches
  /\ overlayHidden' = FALSE
  /\ fetches' = Append(fetches, Fetch("handleContributionSubmit", EmptyObj))
  /\ UNCHANGED <<searchInput, searchTimeout, currentFilters, allTraditions,
                 filteredTraditions, clusterGroup>>
  /\ UNCHANGED <<serverVars, suggestVars>>

\* handleContributionSubmit after its await: the overlay is hidden, and
\* after a contribution that was taken loadInitialData() shows it again and
\* makes its request
ContributionSettles ==
  /\ \E i \in Awaited("handleContributionSubmit") : \E outcome \in Outcomes :
       IF outcome = "ok"
       THEN /\ fetches' = Append(Settled(i, outcome),
                                 Fetch("loadInitialData", EmptyObj))
            /\ overlayHidden' = FALSE
       ELSE /\ fetches' = Settled(i, outcome)
            /\ overlayHidden' = TRUE
  /\ UNCHANGED <<searchInput, searchTimeout, currentFilters, allTraditions,
                 filteredTraditions, clusterGroup>>
  /\ UNCHANGED <<serverVars, suggestVars>>

\* the documents the server holds while the page is used
PageDocs == {doc \in FilterDocs : doc._id <= 3}

\* the page before DOMContentLoaded, #loading-overlay as the document has it
InitPage ==
  /\ collection = PageDocs
  /\ req = Request("/api/health", QueryOf(EmptyObj), Undefined, EmptyBody)
  /\ filter = EmptyObj
  /\ docsFound = <<>>
  /\ error = "none"
  /\ resStatus = 0
  /\ resBody = <<>>
  /\ call = NoCall
  /\ ret = NotReturned
  /\ lookups = <<>>
  /\ searchInput = <<>>
  /\ searchTimeout = NoTimeout
  /\ currentFilters = EmptyObj
  /\ allTraditions = <<>>
  /\ filteredTraditions = <<>>
  /\ clusterGroup = <<>>
  /\ overlayHidden \in BOOLEAN
  /\ fetches = <<>>
  /\ placeInput = <<>>
  /\ suggestionTimeouts = NoTimeout
  /\ suggestionsList = [items |-> <<>>, show |-> FALSE]

NextPage ==
  \/ DomContentLoaded
  \/ LoadFilterOptionsSettles
  \/ LoadInitialDataSettles
  \/ SearchInputs
  \/ SearchTimeoutFires
  \/ ApplyFiltersClicked
  \/ ApplyCurrentFiltersSettles
  \/ ContributionSubmitted
  \/ ContributionSettles

SpecPage == InitPage /\ [][NextPage]_vars

\* the browser fires DOMContentLoaded, and every request it made settles:
\* with a response or with a failure
SpecPageFair ==
  /\ SpecPage
  /\ WF_vars(DomContentLoaded)
  /\ WF_vars(LoadFilterOptionsSettles)
  /\ WF_vars(LoadInitialDataSettles)
  /\ WF_vars(ApplyCurrentFiltersSettles)
  /\ WF_vars(ContributionSettles)

(***************************************************************************)
(* The place suggestions of the contribution form: one place input, its    *)
(* debounce timer in suggestionTimeouts and its suggestions list.          *)
(***************************************************************************)
\* the values typed into the place input, surrounding white space among
\* them
PlaceTexts ==
  { <<>>,
    <<"P", "u">>,
    <<" ", "P", "u", " ">>,
    <<"P", "u", "n">>,
    <<"P", "u", "n", "e">> }

\* hideSuggestions(suggestionsList)
HideSuggestions == [suggestionsList EXCEPT !.show = FALSE]

\* the input listener of a place input, query.length < 3:
\*   hideSuggestions(suggestionsList); return;
PlaceInputTooShort ==
  /\ suggestionsList' = HideSuggestions
  /\ UNCHANGED suggestionTimeouts

\* the input listener of a place input: below 3 characters the list is
\* hidden; from 3 characters on the timer is cleared and set anew, to fetch
\* the suggestions of the value as it is now
PlaceInputs ==
  /\ fetches # <<>>
  /\ \E value \in PlaceTexts :
       /\ value # placeInput
       /\ placeInput' = value
       /\ IF Len(Trim(value)) < 3
          THEN PlaceInputTooShort
          ELSE /\ suggestionTimeouts' = [pending |-> TRUE, query |-> Trim(value)]
               /\ UNCHANGED suggestionsList
  /\ UNCHANGED <<pageVars, serverVars>>

\* the timer of the place input fires: fetchPlaceSuggestions(query, ...) up
\* to its await
SuggestionTimeoutFires ==
  /\ suggestionTimeouts.pending
  /\ Len(fetches) < MaxFetches
  /\ fetches' = Append(fetches, Fetch("fetchPlaceSuggestions",
                                      suggestionTimeouts.query))
  /\ suggestionTimeouts' = NoTimeout
  /\ UNCHANGED <<searchInput, searchTimeout, currentFilters, allTraditions,
                 filteredTraditions, clusterGroup, overlayHidden>>
  /\ UNCHANGED <<placeInput, suggestionsList, serverVars>>

\* what GET /api/suggest-places/:query answers with: nothing for a query
\* below 3 characters, else what the geocoding service found
SuggestionsJson(query) ==
  IF Len(Trim(query)) < 3 THEN { <<>> }
  ELSE { <<>> } \cup { <<Suggestion(answer)>> :
                         answer \in {a \in GeoAnswers : a.outcome = "found"} }

\* displaySuggestions(suggestions, suggestionsList, input)
DisplaySuggestions(suggestions) ==
  IF Len(suggestions) = 0
  THEN [items |-> <<>>, show |-> FALSE]
  ELSE [items |-> SubSeq(suggestions, 1,
                         IF Len(suggestions) < 5 THEN Len(suggestions) ELSE 5),
        show |-> TRUE]

\* fetchPlaceSuggestions after its await: the suggestions are displayed,
\* and the catch block hides the list
FetchPlaceSuggestionsSettles ==
  /\ \E i \in Awaited("fetchPlaceSuggestions") :
       \/ /\ fetches' = Settled(i, "failed")
          /\ suggestionsList' = HideSuggestions
       \/ \E suggestions \in SuggestionsJson(fetches[i].params) :
            /\ fetches' = Settled(i, "ok")
            /\ suggestionsList' = DisplaySuggestions(suggestions)
  /\ UNCHANGED <<searchInput, searchTimeout, currentFilters, allTraditions,
                 filteredTraditions, clusterGroup, overlayHidden>>
  /\ UNCHANGED <<placeInput, suggestionTimeouts, serverVars>>

\* the keydown listener of the place input, Escape, and the timer its blur
\* listener sets: hideSuggestions(suggestionsList)
SuggestionsDismissed ==
  /\ fetches # <<>>
  /\ suggestionsList.show
  /\ suggestionsList' = HideSuggestions
  /\ UNCHANGED <<placeInput, suggestionTimeouts, pageVars, serverVars>>

NextSuggest ==
  \/ DomContentLoaded
  \/ PlaceInputs
  \/ SuggestionTimeoutFires
  \/ FetchPlaceSuggestionsSettles
  \/ SuggestionsDismissed

SpecSuggest == InitPage /\ [][NextSuggest]_vars

(***************************************************************************)
(* What the properties speak of.                                           *)
(***************************************************************************)
\* the request was answered / answered with the list
Answered == resStatus # 0
Answered200 == resStatus = 200

\* the criteria keys the request carries are exactly keys
OnlyGiven(keys) == \A k \in QueryKeys : req.query[k] # Undefined <=> k \in keys

\* the document is among those the filter matched
Found(doc) == \E i \in 1..Len(docsFound) : docsFound[i] = doc

\* needle occurs in hay, letter case aside
ContainsIgnoringCase(hay, needle) ==
  \E o \in 0..(Len(hay) - Len(needle)) :
    \A j \in 1..Len(needle) : ToLowerChar(hay[o + j]) = ToLowerChar(needle[j])

\* an optional sign and decimal digits, nothing else
IsIntegerText(s) ==
  LET body == IF s # <<>> /\ Head(s) \in {"-", "+"} THEN Tail(s) ELSE s
  IN body # <<>> /\ \A i \in 1..Len(body) : body[i] \in Digits

\* the integer an integer text denotes
IntegerOf(s) ==
  IF Head(s) = "-" THEN 0 - DigitsValue(Tail(s))
  ELSE IF Head(s) = "+" THEN DigitsValue(Tail(s))
  ELSE DigitsValue(s)

Lingayat == <<"L", "i", "n", "g", "a", "y", "a", "t">>
LingayatDiacritic == <<"L", "i", "U+1E45", "g", "U+0101", "y", "a", "t">>
VirasaivaDiacritic == <<"V", "U+012B", "r", "a", "U+015B", "a", "i", "v", "a">>
Vaishnava == <<"V", "a", "i", "s", "h", "n", "a", "v", "a">>

\* C1: the filter built from {tradition: "lingayat"} matches every record
\* whose tradition is the diacritic spelling of Virasaiva or of Lingayat, or
\* "Lingayat", and no record whose tradition is "Vaishnava".
C1_VariantExpansion ==
  (/\ Answered200
   /\ OnlyGiven({"tradition"})
   /\ req.query.tradition = <<"l", "i", "n", "g", "a", "y", "a", "t">>)
  => \A doc \in collection :
       /\ doc.tradition \in {VirasaivaDiacritic, LingayatDiacritic, Lingayat}
            => Found(doc)
       /\ doc.tradition = Vaishnava => ~Found(doc)

\* C2, as claimed: a filter built from an integer startYearMax alone matches
\* every record that has no startYear.
C2_MaxKeepsMissingYear ==
  (/\ Answered200
   /\ OnlyGiven({"startYearMax"})
   /\ IsIntegerText(req.query.startYearMax))
  => \A doc \in collection : doc.startYear = Undefined => Found(doc)

\* C2, amended: a filter built from an integer startYearMax alone matches a
\* record that has no startYear exactly when the bound is at least 9999, the
\* value compared in place of the missing year; below it the record is
\* excluded.
C2_MaxComparesFallback ==
  (/\ Answered200
   /\ OnlyGiven({"startYearMax"})
   /\ IsIntegerText(req.query.startYearMax))
  => \A doc \in collection :
       doc.startYear = Undefined
         => (Found(doc) <=> IntegerOf(req.query.startYearMax) >= 9999)

\* C2, the case: the bound "1000" alone, and a record without startYear that
\* the answer leaves out
C2_Witness ==
  /\ Answered200
  /\ OnlyGiven({"startYearMax"})
  /\ req.query.startYearMax = <<"1", "0", "0", "0">>
  /\ \E doc \in collection : doc.startYear = Undefined /\ ~Found(doc)

\* C3, as claimed: a filter built with an integer startYearMin matches no
\* record that has no startYear.
C3_MinDropsMissingYear ==
  (/\ Answered200
   /\ req.query.startYearMin # Undefined
   /\ IsIntegerText(req.query.startYearMin))
  => \A doc \in collection : doc.startYear = Undefined => ~Found(doc)

\* C3, amended: a filter built with an integer startYearMin greater than 0
\* matches no record that has no startYear; 0 is compared in place of the
\* missing year, so a bound of 0 or below does not exclude the record.
C3_PositiveMinDropsMissingYear ==
  (/\ Answered200
   /\ req.query.startYearMin # Undefined
   /\ IsIntegerText(req.query.startYearMin)
   /\ IntegerOf(req.query.startYearMin) > 0)
  => \A doc \in collection : doc.startYear = Undefined => ~Found(doc)

\* C3, the case: the bound "1000" alone, and a record without startYear that
\* the answer leaves out
C3_Witness ==
  /\ Answered200
  /\ OnlyGiven({"startYearMin"})
  /\ req.query.startYearMin = <<"1", "0", "0", "0">>
  /\ \E doc \in collection : doc.startYear = Undefined /\ ~Found(doc)

\* C4: for period and for saint, and every input, a record matches exactly
\* when its field contains the input, letter case aside.
C4_TextIsSubstring ==
  \A k \in {"period", "saint"} :
    (Answered200 /\ OnlyGiven({k}))
    => \A doc \in collection :
         Found(doc) <=> ContainsIgnoringCase(doc[k], req.query[k])

\* C5: whatever the criteria values, the filter is constructed and the
\* request is answered with the list, not with an error.
C5_NoCriteriaIsFatal ==
  Answered => (error = "none" /\ resStatus = 200)

\* C6: for tradition and for language, every variant of the alternation is
\* escaped: whatever special characters the input holds, the filter is built
\* and matches exactly the records whose field contains one of the variants
\* (the trimmed input among them) literally, letter case aside.
C6_VariantsAreLiteral ==
  /\ (Answered /\ OnlyGiven({"tradition"}) /\ Truthy(req.query.tradition))
     => /\ Answered200
        /\ LET vs == TraditionVariations(Trim(req.query.tradition))
           IN \A doc \in collection :
                Found(doc) <=> \E i \in 1..Len(vs) :
                                 ContainsIgnoringCase(doc.tradition, vs[i])
  /\ (Answered /\ OnlyGiven({"language"}) /\ Truthy(req.query.language))
     => /\ Answered200
        /\ LET vs == LanguageVariations(Trim(req.query.language))
           IN \A doc \in collection :
                Found(doc) <=> \E i \in 1..Len(vs) :
                                 ContainsIgnoringCase(doc.language, vs[i])

\* C6, the case: the tradition "(" alone is answered, and finds the record
\* whose tradition holds a parenthesis
C6_Witness ==
  /\ Answered200
  /\ OnlyGiven({"tradition"})
  /\ req.query.tradition = <<"(">>
  /\ \E doc \in collection :
       Found(doc) /\ ContainsIgnoringCase(doc.tradition, <<"(">>)

\* the key of the filter a criteria key writes
PredicateKey(k) ==
  CASE k = "search" -> "$or"
    [] k \in {"startYearMin", "startYearMax"} -> "$and"
    [] OTHER -> k

\* C7: the built filter holds a predicate only for criteria keys that were
\* given with a non-empty value, and is the empty filter when every key is
\* absent or empty.
C7_EmptyAddsNoPredicate ==
  Answered200
  => /\ \A key \in DOMAIN filter :
          \E k \in QueryKeys \ {"placeType"} :
            Truthy(req.query[k]) /\ PredicateKey(k) = key
     /\ (\A k \in QueryKeys \ {"placeType"} : ~Truthy(req.query[k]))
          => filter = EmptyObj

\* C7, the case: period given as the empty string beside a saint criterion;
\* the filter holds the saint predicate alone
C7_Witness ==
  /\ Answered200
  /\ OnlyGiven({"period", "saint"})
  /\ req.query.period = <<>>
  /\ DOMAIN filter = {"saint"}

\* C8: a year bound that is not an integer is ignored: the filter holds no
\* comparison for it.
C8_NonIntegerBoundIgnored ==
  /\ (Answered200 /\ Truthy(req.query.startYearMin)
      /\ ~IsIntegerText(req.query.startYearMin))
     => ~("$and" \in DOMAIN filter
          /\ \E i \in 1..Len(filter["$and"]) : filter["$and"][i].op = "$gte")
  /\ (Answered200 /\ Truthy(req.query.startYearMax)
      /\ ~IsIntegerText(req.query.startYearMax))
     => ~("$and" \in DOMAIN filter
          /\ \E i \in 1..Len(filter["$and"]) : filter["$and"][i].op = "$lte")

\* the places a document holds under a type, one by one (an entry that is
\* one place holds that place, an array holds its items)
PlacesUnder(doc, type) ==
  IF doc.places.kind # "object" THEN {}
  ELSE UNION { IF e.type # type \/ e.data.kind = "null" THEN {}
               ELSE IF e.data.kind = "array"
               THEN {e.data.items[i] : i \in 1..Len(e.data.items)}
               ELSE {e.data} :
               e \in {doc.places.entries[i] : i \in 1..Len(doc.places.entries)} }

\* the place has exactly two coordinate values
HasTwoCoords(place) ==
  /\ place.kind = "object"
  /\ place.coords.kind = "array"
  /\ Len(place.coords.items) = 2

\* the markers of the answer that stand for the place of the document
MarkersFor(doc, type, place) ==
  {i \in 1..Len(resBody) :
     /\ resBody[i].id.doc = doc._id
     /\ resBody[i].type = type
     /\ resBody[i].name = place.name
     /\ resBody[i].coords = place.coords.items}

\* the answer lists the markers of every document, none filtered out
WholeList == Answered200 /\ ~Truthy(req.query.placeType)

\* C9: the projection emits exactly one marker for each place, of whatever
\* type, single or in an array, that has exactly two coordinate values, and
\* no marker for any other place.
C9_OneMarkerPerPlacedPlace ==
  WholeList
  => /\ \A doc \in collection : \A type \in {TypeBirth, TypeTemple} :
          \A place \in PlacesUnder(doc, type) \ {JsNull} :
            Cardinality(MarkersFor(doc, type, place))
              = IF HasTwoCoords(place) THEN 1 ELSE 0
     /\ \A i \in 1..Len(resBody) :
          \E doc \in collection :
            \E place \in PlacesUnder(doc, resBody[i].type) \ {JsNull} :
              HasTwoCoords(place) /\ i \in MarkersFor(doc, resBody[i].type, place)

\* C9, the case: birth is one place with two coordinates, temple an array
\* of one place without coordinates; the answer holds one marker, for birth
C9_Witness ==
  /\ WholeList
  /\ collection =
       {MarkerDoc([kind |-> "object",
                   entries |-> << [type |-> TypeBirth,
                                   data |-> Place(<<"X">>, JsArray(<<1, 2>>))],
                                  [type |-> TypeTemple,
                                   data |-> JsArray(<<Place(<<"Y", 1>>, JsNull)>>)] >>])}
  /\ Len(resBody) = 1
  /\ resBody[1].type = TypeBirth
  /\ resBody[1].name = <<"X">>

\* C10: the ids of the markers of one answer are pairwise distinct, those
\* of one document and one place type included.
C10_MarkerIdsDistinct ==
  Answered200
  => \A i, j \in 1..Len(resBody) : i # j => resBody[i].id # resBody[j].id

(***************************************************************************)
(* The value parsers: what the properties speak of.                        *)
(***************************************************************************)
\* the call of the function for the kind has returned
Returned(fn, kind) == call.fn = fn /\ call.kind = kind /\ ret.done

\* the keys of the variant table of a kind
TableKeys(kind) ==
  {pair[1] : pair \in IF kind = "tradition" THEN TraditionNormalizations
                      ELSE LanguageNormalizations}

\* the token is segmented: trimmed, its words one white space apart
Segmented(token) ==
  /\ IsString(token)
  /\ Trim(token) = token
  /\ \A i \in 1..Len(token) :
       IsWhiteSpace(token[i]) => (token[i] = " " /\ ~IsWhiteSpace(token[i + 1]))

\* the token with the first letter of each word in upper case
WordsCapitalized(token) ==
  [i \in 1..Len(token) |->
     IF i = 1 \/ IsWhiteSpace(token[i - 1]) THEN ToUpperChar(token[i])
     ELSE token[i]]

\* C11, as claimed: for both kinds, normalize returns null for the empty
\* string and for every token of fewer than 2 characters after trimming.
C11_ShortTokenGivesNull ==
  \A kind \in Kinds :
    (Returned("normalize", kind) /\ Len(Trim(call.arg)) < 2)
    => ret.value = Null

\* C11, amended: for both kinds, normalize returns null for every token that
\* is not empty and has fewer than 2 characters after trimming; the empty
\* string is returned as it is, an empty string and not null.
C11_ShortTokenGivesNullOrEmpty ==
  \A kind \in Kinds :
    (Returned("normalize", kind) /\ Len(Trim(call.arg)) < 2)
    => ret.value = IF call.arg = <<>> THEN <<>> ELSE Null

\* C11, the case: the language token "a" is answered with null
C11_Witness ==
  /\ Returned("normalize", "language")
  /\ call.arg = <<"a">>
  /\ ret.value = Null

\* C12: for both kinds, a segmented token of 2 characters or more whose
\* lower-cased form is no key of the variant table is returned with the
\* first letter of each word in upper case and nothing else changed.
C12_FallbackCapitalizes ==
  \A kind \in Kinds :
    (/\ Returned("normalize", kind)
     /\ Segmented(call.arg)
     /\ Len(call.arg) >= 2
     /\ ToLowerCase(call.arg) \notin TableKeys(kind))
    => ret.value = WordsCapitalized(call.arg)

\* C13: the tradition value of the two diacritic names joined by a slash
\* parses to "Virashaiva" and "Lingayat".
C13_SlashDiacriticNames ==
  (/\ Returned("parseCompound", "tradition")
   /\ call.arg = <<"V", "U+012B", "r", "a", "U+015B", "a", "i", "v", "a", " ", "/", " ", "L", "i", "U+1E45", "g", "U+0101", "y", "a", "t">>)
  => Range(ret.value) = { <<"V", "i", "r", "a", "s", "h", "a", "i", "v", "a">>,
                          <<"L", "i", "n", "g", "a", "y", "a", "t">> }

\* two values joined by an en-dash, an em-dash or a hyphen between spaces
DashGlues ==
  { <<" ", "U+2013", " ">>, <<" ", "U+2014", " ">>, <<" ", "-", " ">> }

\* C14: a tradition value of two parts joined by an en-dash, an em-dash or a
\* hyphen between spaces is split there, each part parsed on its own: the
\* tokens are those of the first part, then those of the second; the value
\* of the documentation yields two candidates.
C14_SplitAtDash ==
  Returned("parseCompound", "tradition")
  => /\ \A p1 \in ValuePieces : \A p2 \in ValuePieces : \A g \in DashGlues :
          call.arg = p1 \o g \o p2
            => Range(ret.value)
                 = Range(ParseTraditionValue(p1)) \cup Range(ParseTraditionValue(p2))
     /\ call.arg = <<"U+015A", "a", "i", "v", "a", " ", "S", "i", "d", "d", "h", "U+0101", "n", "t", "a", " ", "U+2013", " ", "T", "a", "m", "i", "l", " ", "U+015A", "a", "i", "v", "a", " ", "B", "h", "a", "k", "t", "i">>
          => Len(ret.value) = 2

\* C15: for both kinds, a token a parser returned, parsed again on its own,
\* gives that token alone.
C15_ParseIsIdempotent ==
  (call.fn = "parseCompound" /\ call.fedBack /\ ret.done)
  => ret.value = <<call.arg>>

\* C16: the language value "Hindi (Braj, Avadhi dialects)" parses to
\* "Hindi", "Braj Bhasha" and "Awadhi"; in general a value p (q dialects)
\* gives the tokens of p and of q, each normalized, the parenthetical being
\* no part of what is left of the value.
C16_DialectsExtracted ==
  Returned("parseCompound", "language")
  => /\ call.arg = <<"H", "i", "n", "d", "i", " ", "(", "B", "r", "a", "j", ",", " ", "A", "v", "a", "d", "h", "i", " ", "d", "i", "a", "l", "e", "c", "t", "s", ")">>
          => Range(ret.value) = { <<"H", "i", "n", "d", "i">>,
                                  <<"B", "r", "a", "j", " ", "B", "h", "a", "s", "h", "a">>,
                                  <<"A", "w", "a", "d", "h", "i">> }
     /\ \A p \in ValuePieces : \A q \in ValuePieces :
          call.arg = p \o <<" ", "(">> \o q
                       \o <<" ", "d", "i", "a", "l", "e", "c", "t", "s", ")">>
            => Range(ret.value)
                 = {NormalizeLanguageName(t) :
                      t \in {x \in {p, q} :
                               /\ Len(x) >= 2
                               /\ NormalizeLanguageName(x) \notin {Null, ObjectFunction}
                               /\ \A phrase \in SkipPhrases :
                                    ~Includes(ToLowerCase(x), phrase)
                               /\ ToLowerCase(x) \notin SkipWords}}

\* C16, the case: the value of the documentation has been parsed into three
\* tokens, "Awadhi" the last
C16_Witness ==
  /\ Returned("parseCompound", "language")
  /\ call.arg = <<"H", "i", "n", "d", "i", " ", "(", "B", "r", "a", "j", ",", " ", "A", "v", "a", "d", "h", "i", " ", "d", "i", "a", "l", "e", "c", "t", "s", ")">>
  /\ Len(ret.value) = 3
  /\ ret.value[3] = <<"A", "w", "a", "d", "h", "i">>

\* C17: the extractor returns exactly the tokens the parser returns for the
\* rows, each once, in ascending locale order; the rows "Hindi, Sanskrit"
\* and "hindi" give "Hindi", "Sanskrit".
C17_ExtractIsSortedUnion ==
  \A kind \in Kinds :
    Returned("extractUnique", kind)
    => /\ Range(ret.value)
            = UNION {Range(ParseFunction(kind, call.arg[i])) :
                       i \in 1..Len(call.arg)}
       /\ \A i, j \in 1..Len(ret.value) :
            i < j => (/\ ret.value[i] # ret.value[j]
                      /\ LocaleCompare(ret.value[i], ret.value[j]) < 0)
       /\ (kind = "language"
           /\ call.arg = << <<"H", "i", "n", "d", "i", ",", " ", "S", "a", "n", "s", "k", "r", "i", "t">>,
                            <<"h", "i", "n", "d", "i">> >>)
            => ret.value = << <<"H", "i", "n", "d", "i">>,
                              <<"S", "a", "n", "s", "k", "r", "i", "t">> >>

\* C18: for every input of either kind, a string, the empty string or a
\* value that is no string, the parser returns a list, empty when the input
\* is empty or no string, and no token of the list is null, undefined or
\* empty.
C18_ParserNeverFails ==
  \A kind \in Kinds :
    Returned("parseCompound", kind)
    => /\ \A i \in 1..Len(ret.value) :
            /\ ret.value[i] \notin {Null, Undefined}
            /\ JsLength(ret.value[i]) > 0
       /\ (call.arg = <<>> \/ ~IsString(call.arg)) => ret.value = <<>>

\* C18, the case: null has been handed to the tradition parser, which
\* returned the empty list
C18_Witness ==
  /\ Returned("parseCompound", "tradition")
  /\ call.arg = Null
  /\ ret.value = <<>>

\* the named places a contribution submits under birth and samadhi, in order
SubmittedPlaces(body) ==
  SelectSeq(PlaceObjs(PlaceData(body.places, TypeBirth))
              \o PlaceObjs(PlaceData(body.places, TypeSamadhi)),
            LAMBDA placeObj : ~Nameless(placeObj))

\* the places a document holds under birth and samadhi, in order
StoredPlaces(doc) ==
  EntryPlaces(PlaceData(doc.places, TypeBirth))
  \o EntryPlaces(PlaceData(doc.places, TypeSamadhi))

\* a contribution that passed validation was handled to the end, no field
\* of the body making the handler throw
ContributionHandled ==
  /\ req.route = "/api/contribute"
  /\ resStatus # 0
  /\ ValidateContributionBody(req.body) = <<>>
  /\ ~TrimThrows(req.body)

\* the coordinates a place gets from the lookup the service answered
CoordsOfAnswer(answer) ==
  IF answer.outcome = "found"
  THEN JsArray(<<ParseFloat(answer.lat), ParseFloat(answer.lon)>>)
  ELSE JsNull

C20_RecordsKept ==
  [][/\ collection \subseteq collection'
     /\ collection' # collection
        => /\ req.route = "/api/contribute"
           /\ resStatus = 0
           /\ resStatus' = 200
           /\ Cardinality(collection' \ collection) = 1
           /\ \A doc \in collection' \ collection : doc._id = resBody'.id]_vars

\* after a contribution was stored beside the document the collection held,
\* and further requests were answered, the list of places is answered from
\* both documents
C20_Witness ==
  /\ req.route = "/api/places"
  /\ resStatus = 200
  /\ Cardinality(collection) = 2
  /\ \E doc \in collection : doc \in FilterDocs
  /\ \E doc \in collection : doc \notin FilterDocs
  /\ Len(docsFound) = 2

\* the required field of the body is absent, empty, no string or white space
Blank(body, field) ==
  \/ body[field] \in {Undefined, <<>>, <<"number">>}
  \/ \A i \in 1..Len(body[field]) : IsWhiteSpace(body[field][i])

\* what a field-level list names for the body: the required fields that are
\* blank, in their order, then places when it is no object
FieldsAtFault(body) ==
  SelectSeq(RequiredFields, LAMBDA field : Blank(body, field))
  \o (IF body.places.kind \in {"undefined", "string"}
      THEN << "places" >> ELSE <<>>)

\* the contribution in hand fails validation
FailsValidation ==
  /\ req.route = "/api/contribute"
  /\ FieldsAtFault(req.body) # <<>>

\* C21: while a contribution that fails validation is handled, no geocoding
\* lookup is made, and once it is answered the answer is 400 "Validation
\* failed" with the list of the fields at fault; no step of its handling
\* changes the collection.
C21_InvalidRejectedUntouched ==
  /\ [](FailsValidation
        => /\ lookups = <<>>
           /\ resStatus # 0
              => /\ resStatus = 400
                 /\ resBody.error = "Validation failed"
                 /\ resBody.details = FieldsAtFault(req.body))
  /\ [][FailsValidation => collection' = collection]_vars

\* a contribution whose saint is white space was answered 400 with that one
\* field, the collection holding the document it held before
C21_Witness ==
  /\ FailsValidation
  /\ resStatus = 400
  /\ resBody.details = << "saint" >>
  /\ collection = {doc \in FilterDocs : doc._id = 1}

\* the sub-parts of a tradition value: its parts between dashes, each cut
\* at its slashes
RECURSIVE SubPartsOf(_)
SubPartsOf(dashParts) ==
  IF dashParts = <<>> THEN <<>>
  ELSE Split("slash", Head(dashParts)) \o SubPartsOf(Tail(dashParts))

\* subPart has the form "<main> (<paren>)": it opens a parenthesis after
\* one character at least and closes it after one character at least
HasMainAndParen(subPart) ==
  \E i \in 2..Len(subPart) :
    /\ subPart[i] = "("
    /\ \A j \in 1..(i - 1) : subPart[j] # "("
    /\ \E k \in (i + 2)..Len(subPart) : subPart[k] = ")"

\* the <main> of such a sub-part, trimmed
MainOf(subPart) ==
  Trim(SubSeq(subPart, 1,
              (CHOOSE i \in 1..Len(subPart) : subPart[i] = "(" /\
                 \A j \in 1..(i - 1) : subPart[j] # "(") - 1))

\* the tradition parser has returned for a string
TraditionParsed ==
  /\ call.fn = "parseCompound"
  /\ call.kind = "tradition"
  /\ ret.done
  /\ IsString(call.arg)

\* C22 as stated: for every sub-part of the form "<main> (<paren>)" the
\* normalized <main> is in the result of the tradition parser, whatever the
\* length of <main>.
C22_MainAlwaysKept ==
  TraditionParsed
  => \A n \in 1..Len(SubPartsOf(Split("dash", call.arg))) :
       LET subPart == SubPartsOf(Split("dash", call.arg))[n]
       IN HasMainAndParen(subPart)
          => \E m \in 1..Len(ret.value) :
               ret.value[m] = NormalizeTraditionName(MainOf(subPart))

\* C22, amended: for every sub-part of the form "<main> (<paren>)" whose
\* trimmed <main> has more than 2 characters, the normalized <main> is in
\* the result of the tradition parser, whatever the parenthetical contains.
C22_LongMainKept ==
  TraditionParsed
  => \A n \in 1..Len(SubPartsOf(Split("dash", call.arg))) :
       LET subPart == SubPartsOf(Split("dash", call.arg))[n]
       IN (HasMainAndParen(subPart) /\ Len(MainOf(subPart)) > 2)
          => \E m \in 1..Len(ret.value) :
               ret.value[m] = NormalizeTraditionName(MainOf(subPart))

\* "Hindi (Bhakti movement)" was parsed: the parenthetical is a description
\* and the result is the main part alone
C22_Witness ==
  /\ TraditionParsed
  /\ call.arg = <<"H", "i", "n", "d", "i", " ", "(", "B", "h", "a", "k", "t",
                  "i", " ", "m", "o", "v", "e", "m", "e", "n", "t", ")">>
  /\ ret.value = << <<"H", "i", "n", "d", "i">> >>

\* the names of the places of a list that are looked up, in the order of
\* the list: the named places without a pair of coordinates
RECURSIVE NamesToLookUp(_)
NamesToLookUp(placeObjs) ==
  IF placeObjs = <<>> THEN <<>>
  ELSE LET placeObj == Head(placeObjs)
           named == placeObj.kind = "object" /\
                    placeObj.name \notin {Undefined, Null, <<>>}
           located == placeObj.coords.kind = "array" /\
                      Len(placeObj.coords.items) = 2
       IN (IF named /\ ~located THEN << placeObj.name >> ELSE <<>>)
          \o NamesToLookUp(Tail(placeObjs))

\* the places submitted under a category, as a list
SubmittedList(body, type) ==
  IF body.places.kind # "object" THEN <<>>
  ELSE LET under == SelectSeq(body.places.entries,
                              LAMBDA entry : entry.type = type)
       IN IF under = <<>> THEN <<>>
          ELSE CASE under[1].data.kind = "array" -> under[1].data.items
                 [] under[1].data.kind = "object" -> << under[1].data >>
                 [] under[1].data.kind = "string" /\ under[1].data.value # <<>>
                      -> << under[1].data >>
                 [] OTHER -> <<>>

\* the lookups of a contribution in the order of the handler: the birth
\* places, then the samadhi places
LookupOrder(body) ==
  NamesToLookUp(SubmittedList(body, TypeBirth))
  \o NamesToLookUp(SubmittedList(body, TypeSamadhi))

\* C23: the lookups of one contribution are strictly sequential: they are
\* started in the order of the places, across the categories and within a
\* list, and each is started only after the one before it has completed,
\* so that at most one lookup is in flight.
C23_LookupsSequential ==
  [](req.route = "/api/contribute"
     => /\ Len(lookups) <= Len(LookupOrder(req.body))
        /\ \A i \in 1..Len(lookups) :
             /\ lookups[i].placeName = LookupOrder(req.body)[i]
             /\ i < Len(lookups) => lookups[i].answer.outcome # "inFlight")

\* the second lookup of a contribution is in flight, after the first one
\* completed
C23_Witness ==
  /\ req.route = "/api/contribute"
  /\ Len(lookups) = 2
  /\ lookups[1].answer.outcome = "found"
  /\ lookups[2].answer.outcome = "inFlight"

\* the place was submitted with a pair of coordinates
CameWithPair(placeObj) ==
  /\ placeObj.coords.kind = "array"
  /\ Len(placeObj.coords.items) = 2

\* the region a place was submitted with, null when it came without one
SubmittedRegion(placeObj) ==
  IF placeObj.region \in {Undefined, Null, <<>>} THEN Null ELSE placeObj.region

TokenFindsValue(kind, token, value) ==
  LET built == BuildFilter(QueryOf(kind :> token))
  IN /\ ~built.threw
     /\ kind \in DOMAIN built.filter
     /\ RegexMatches(built.filter[kind], value)

\* the parser of a kind has returned for the field of a stored record, a
\* string that is not empty
FieldParsed(kind) ==
  /\ call.fn = "parseCompound"
  /\ call.kind = kind
  /\ ret.done
  /\ IsString(call.arg)
  /\ call.arg # <<>>

\* C25: for each kind, language and tradition, every token the parser
\* returns for the field of a record finds the record again: the filter
\* built from the token alone matches the field the token was taken from.
C25_OptionsRoundTrip ==
  \A kind \in {"language", "tradition"} :
    FieldParsed(kind)
    => \A m \in 1..Len(ret.value) :
         IsString(ret.value[m])
         => TokenFindsValue(kind, ret.value[m], call.arg)

\* the request in hand asks for a year range with an integer bound
IntegerYearBound ==
  /\ req.route = "/api/traditions"
  /\ \E bound \in {"startYearMin", "startYearMax"} :
       /\ req.query[bound] \notin {Undefined, <<>>}
       /\ ~ParseInt(req.query[bound]).nan

\* C26: after any sequence of contributions that validation accepted, a
\* request for /api/traditions with an integer startYearMin or startYearMax
\* is answered 200 with a list of markers.
C26_YearRangeAnswered ==
  (IntegerYearBound /\ resStatus # 0)
  => /\ resStatus = 200
     /\ error = "none"

\* the requests applyCurrentFilters made, in the order it made them
FilterRequests == SelectSeq(fetches, LAMBDA f : f.fn = "applyCurrentFilters")

\* the last response to a filter request arrives: one was in flight, none
\* is after the step, and every filter request was answered
LastFilterResponseArrives ==
  /\ Awaited("applyCurrentFilters") # {}
  /\ Len(fetches') = Len(fetches)
  /\ \A i \in 1..Len(fetches') :
       fetches'[i].fn = "applyCurrentFilters" => fetches'[i].state = "ok"

\* C27: when the last of the responses to the filter requests arrives, all
\* of them answered, filteredTraditions and the markers on the map are
\* those of the filter request made last, whatever the order the responses
\* arrived in.
C27_LatestRequestWins ==
  [][LastFilterResponseArrives
     => LET latest == FilterRequests[Len(FilterRequests)]
        IN /\ filteredTraditions' = TraditionsJson(latest.params)
           /\ clusterGroup' = UpdateMapMarkers(TraditionsJson(latest.params))]_vars

\* C28: in every step in which the trimmed value of the place input is
\* below 3 characters, before the step and after it, a suggestions list
\* that is hidden stays hidden.
C28_HiddenWhileShort ==
  [][(Len(Trim(placeInput)) < 3 /\ Len(Trim(placeInput')) < 3
      /\ ~suggestionsList.show)
     => ~suggestionsList'.show]_vars

\* the page made requests, and none of them is in flight
EveryRequestSettled ==
  /\ fetches # <<>>
  /\ \A i \in 1..Len(fetches) : fetches[i].state # "inFlight"

\* C29: the loading overlay is never visible when every request the page
\* made has settled, with a response or with a failure; and an overlay
\* that is visible is hidden in the end.
C29_OverlayHiddenInTheEnd ==
  /\ [](EveryRequestSettled => overlayHidden)
  /\ (~overlayHidden ~> overlayHidden)

\* a contribution was taken, the load that follows it failed and so did a
\* filter request; with nothing in flight the overlay is hidden
C29_Witness ==
  /\ EveryRequestSettled
  /\ overlayHidden
  /\ \E i, j, k \in 1..Len(fetches) :
       /\ i < j
       /\ fetches[i].fn = "handleContributionSubmit" /\ fetches[i].state = "ok"
       /\ fetches[j].fn = "loadInitialData" /\ fetches[j].state = "failed"
       /\ fetches[k].fn = "applyCurrentFilters" /\ fetches[k].state = "failed"

\* the entries of the places a contribution submits
SubmittedEntries(body) ==
  IF body.places.kind = "object" THEN body.places.entries ELSE <<>>

\* the named places of an entry
NamedPlaces(data) ==
  SelectSeq(CASE data.kind = "array" -> data.items
              [] data.kind = "object" -> << data >>
              [] OTHER -> <<>>,
            LAMBDA p : p.kind = "object" /\ p.name \notin {Undefined, Null, <<>>})

\* the places a document holds under a category
StoredUnder(doc, type) ==
  IF PlaceData(doc.places, type).kind \in {"null", "undefined"} THEN <<>>
  ELSE EntryPlaces(PlaceData(doc.places, type))

\* the lookup of the name found the place
LookupFound(name) ==
  \E k \in 1..Len(lookups) :
    lookups[k].placeName = name /\ lookups[k].answer.outcome = "found"

\* C30: when a contribution has been stored, the record holds every named
\* place it was submitted with under the category it was submitted under,
\* and a place whose lookup found it gives a marker of that category when
\* the record is read.
C30_CategoriesKept ==
  (ContributionHandled /\ resStatus = 200)
  => \E doc \in collection :
       /\ doc._id = resBody.id
       /\ \A e \in 1..Len(SubmittedEntries(req.body)) :
            LET entry == SubmittedEntries(req.body)[e]
            IN \A n \in 1..Len(NamedPlaces(entry.data)) :
                 LET name == NamedPlaces(entry.data)[n].name
                 IN /\ \E p \in 1..Len(StoredUnder(doc, entry.type)) :
                         StoredUnder(doc, entry.type)[p].name = name
                    /\ LookupFound(name)
                       => \E m \in 1..Len(MarkerSlots(doc)) :
                            /\ MarkerSlots(doc)[m].type = entry.type
                            /\ MarkerSlots(doc)[m].place.name = name

====
